---- MODULE Spec2Model ----
(***************************************************************************)
(* Model of the producer/consumer coordination state machine of            *)
(* src/src/Stream.ts (class Stream): the controller operations             *)
(* yield/return/throw, the consumer operations next()/return(), the        *)
(* cleanup coordinator _doCleanup and the promise reactions the handlers   *)
(* register on the cleanedUp promise.  Promise reactions run as separate   *)
(* jobs from a FIFO job queue, as the ECMAScript job queue runs them.      *)
(***************************************************************************)
EXTENDS Integers, Sequences, FiniteSets, TLC

\* ---- bounds -------------------------------------------------------------
MaxYields == 2
MaxReqs == 4
MaxCompletes == 2
MaxUserJobs == 2

\* ---- values of the calls --------------------------------------------------
\* The stream never inspects a value, so every call passes a value of its own:
\* the k-th yield yields k, the k-th controller return/throw passes
\* ProducerValue + k, the consumer return() issued as request i passes
\* ConsumerValue + i, and the cleanup operation fails with CleanupErr.
ProducerValue == 20
ConsumerValue == 10
CleanupErr == 40
NoValue == 0
\* queue=Infinity: the capacity of an unbounded item queue
Infinity == 99

VARIABLES
    phase,            \* "init": the initializer is running; "open": the constructor has returned
    name,             \* _state.name
    itemQueue,        \* _state.itemQueue (empty where the state has no such field)
    waitingQueue,     \* _state.waitingQueue: resolvers of pending next() requests
    endWaiter,        \* request that created the endWaiter Deferred (0: none)
    endAliases,       \* next() requests that were handed endWaiter.promise itself
    endThens,         \* return() requests derived from endWaiter.promise.then(doneTrue, doneTrue)
    cleanupOperation, \* _state.cleanupOperation: "placeholder" (constructor's) or "real"
    completionValue,  \* _state.completionValue
    cleanup,          \* cleanedUp promise: "idle", "deferred", "running", "ok", "failed"
    cleanupArg,       \* completionValue argument captured by _doCleanup
    finalCV,          \* value the cleanedUp promise resolved with
    reactions,        \* reactions registered on cleanedUp while it is pending
    jobs,             \* promise job queue
    reqs,             \* consumer requests in issue order
    nYield,           \* number of controller yield calls
    nComplete,        \* number of controller return/throw calls
    cleanupCalls,     \* number of invocations of the real cleanup operation
    setBy,            \* who set the current completion value: "none", "producer", "consumer"
    nAccepted,        \* number of yielded values that were buffered or handed to a request
    completedAt,      \* number of requests issued before the controller's return/throw took effect
    userActive,       \* code of the stream's user is running
    cancelled,        \* this._cancelled (Stream.mjs); abortSignal.aborted (isResolved.mjs)
    maxSize,          \* src/Stream.mjs: the queue option (capacity of the item queue)
    options           \* src/Stream_v3.mjs: the arguments the constructor is called with

vars == <<phase, name, itemQueue, waitingQueue, endWaiter, endAliases, endThens,
          cleanupOperation, completionValue, cleanup, cleanupArg, finalCV,
          reactions, jobs, reqs, nYield, nComplete, cleanupCalls,
          setBy, nAccepted, completedAt, userActive, cancelled, maxSize, options>>

\* The state of src/Stream.mjs that src/src/Stream.ts does not have.
mjsVars == <<cancelled, maxSize, options>>

\* ---- values -------------------------------------------------------------
NoCompletion == [type |-> "none", value |-> NoValue, reason |-> <<>>]
ReturnCompletion(v) == [type |-> "return", value |-> v, reason |-> <<>>]
ErrorCompletion(e) == [type |-> "error", value |-> NoValue, reason |-> e]

\* AggregateError([completionValue.reason, cleanupError])
AggregateError(errors) == errors[1] \o errors[2]

\* A request is the promise a next() or return() call returns; at is the
\* state the call found the stream in.
NewReq(kind, arg) ==
    [kind |-> kind, arg |-> arg, at |-> IF cancelled THEN "cancelled" ELSE name,
     st |-> "pending", val |-> 0, ret |-> NoValue, err |-> <<>>]

ValueResult(v) == [st |-> "value", val |-> v, ret |-> NoValue, err |-> <<>>]
DoneResult(v) == [st |-> "done", val |-> 0, ret |-> v, err |-> <<>>]
Rejection(e) == [st |-> "rejected", val |-> 0, ret |-> NoValue, err |-> e]
SyncThrow(e) == [st |-> "thrown", val |-> 0, ret |-> NoValue, err |-> e]

\* if (completionValue.type === "return") resolve({done: true, value}) else reject(reason)
FromCompletion(cv) ==
    IF cv.type = "return" THEN DoneResult(cv.value) ELSE Rejection(cv.reason)

\* A promise settles once: settling a settled request changes nothing.
Settle(rs, i, o) ==
    IF rs[i].st # "pending" THEN rs
    ELSE [rs EXCEPT ![i] = [@ EXCEPT !.st = o.st, !.val = o.val,
                                     !.ret = o.ret, !.err = o.err]]

RECURSIVE SettleAll(_, _, _)
SettleAll(rs, S, o) ==
    IF S = {} THEN rs
    ELSE LET i == CHOOSE x \in S : TRUE
         IN SettleAll(Settle(rs, i, o), S \ {i}, o)

Job(k, r) == [k |-> k, r |-> r]

RECURSIVE JobsFor(_, _)
JobsFor(k, q) == IF q = <<>> THEN <<>> ELSE <<Job(k, Head(q))>> \o JobsFor(k, Tail(q))

Settled == cleanup \in {"ok", "failed"}

\* cleanedUp.then(reaction): queued at once when cleanedUp is already resolved
ThenReactions(rs) == IF Settled THEN reactions ELSE reactions \o rs
ThenJobs(rs) == IF Settled THEN jobs \o rs ELSE jobs

\* ---- scheduling ---------------------------------------------------------
\* JavaScript runs to completion.  Code of the stream's user (the producer and
\* the consumer) runs in a task or in a promise job of its own, which waits in
\* the job queue among the stream's reactions; while it runs (userActive) no
\* promise job runs.  With an empty job queue the user's next task may start at
\* once, so userActive holds whenever the job queue is empty.
UserJob == Job("user", 0)
UserJobs == {i \in 1..Len(jobs) : jobs[i] = UserJob}
UserRuns == userActive

\* ---- _doCleanup ----------------------------------------------------------
\* The synchronous part of _doCleanup: cleanupOperation() is called at once.
\* The constructor's placeholder only creates the cleanupComplete Deferred.
doCleanup(cv) ==
    /\ cleanupArg' = cv
    /\ IF cleanupOperation = "placeholder"
       THEN cleanup' = "deferred" /\ UNCHANGED cleanupCalls
       ELSE cleanup' = "running" /\ cleanupCalls' = cleanupCalls + 1

\* The completion value _doCleanup resolves its deferred with.
MergeCompletion(cv, ok) ==
    IF ok THEN cv
    ELSE IF cv.type = "return" THEN ErrorCompletion(<<CleanupErr>>)
    ELSE ErrorCompletion(AggregateError(<<cv.reason, <<CleanupErr>>>>))

\* The cleanup operation's result settles (ok: fulfilled, ~ok: threw or rejected):
\* the cleanedUp promise resolves and its reactions are queued in order.
doCleanupSettle(ok) ==
    /\ phase = "open"
    /\ cleanup = "running"
    /\ (~userActive \/ jobs = <<>>)
    /\ userActive' = (jobs \o reactions = <<>>)
    /\ cleanup' = IF ok THEN "ok" ELSE "failed"
    /\ finalCV' = MergeCompletion(cleanupArg, ok)
    /\ jobs' = jobs \o reactions
    /\ reactions' = <<>>
    /\ UNCHANGED <<phase, name, itemQueue, waitingQueue, endWaiter, endAliases,
                   endThens, cleanupOperation, completionValue, cleanupArg,
                   reqs, nYield, nComplete, cleanupCalls, setBy, nAccepted, completedAt>>
    /\ UNCHANGED mjsVars

\* ---- constructor ---------------------------------------------------------
\* The constructor's arguments: a function as initializer, and no option given.
DefaultOptions ==
    [initializer |-> "function", queueIsNumber |-> TRUE, queue |-> Infinity,
     drop |-> "undefined"]

Init ==
    /\ phase = "init"
    /\ name = "maybeQueued"
    /\ itemQueue = <<>>
    /\ waitingQueue = <<>>
    /\ endWaiter = 0
    /\ endAliases = {}
    /\ endThens = <<>>
    /\ cleanupOperation = "placeholder"
    /\ completionValue = NoCompletion
    /\ cleanup = "idle"
    /\ cleanupArg = NoCompletion
    /\ finalCV = NoCompletion
    /\ reactions = <<>>
    /\ jobs = <<>>
    /\ reqs = <<>>
    /\ nYield = 0
    /\ nComplete = 0
    /\ cleanupCalls = 0
    /\ setBy = "none"
    /\ nAccepted = 0
    /\ completedAt = 0
    /\ userActive = TRUE
    /\ cancelled = FALSE
    /\ maxSize = Infinity
    /\ options = DefaultOptions

\* Variant of constructorCleanup that only stores the real cleanup operation
\* and leaves its invocation to a later call.
constructorCleanup_deferred ==
    /\ cleanup = "deferred"
    /\ name = "endQueued"
    /\ cleanupOperation' = "real"
    /\ UNCHANGED <<cleanup, cleanupCalls, cleanupArg, name, itemQueue, reactions,
                   completionValue>>

\* The initializer returned after completing synchronously (cleanupComplete is set):
\* the real cleanup runs and the state becomes waitingForCleanupToFinish.
constructorCleanup ==
    /\ cleanup = "deferred"
    /\ name = "endQueued"
    /\ cleanup' = "running"
    /\ cleanupCalls' = cleanupCalls + 1
    /\ cleanupArg' = completionValue
    /\ name' = "waitingForCleanupToFinish"
    /\ itemQueue' = <<>>
    /\ reactions' = Append(reactions, Job("ctor", 0))
    /\ cleanupOperation' = "real"
    /\ UNCHANGED <<completionValue>>

\* The initializer returned without completing: the real cleanup is stored.
constructorStore ==
    /\ cleanup # "deferred"
    /\ cleanupOperation' = "real"
    /\ UNCHANGED <<cleanup, cleanupCalls, cleanupArg, name, itemQueue, reactions,
                   completionValue>>

constructor ==
    /\ phase = "init"
    /\ phase' = "open"
    /\ (constructorCleanup \/ constructorStore)
    /\ UNCHANGED <<waitingQueue, endWaiter, endAliases, endThens, finalCV, jobs,
                   reqs, nYield, nComplete, setBy, nAccepted, completedAt, userActive>>
    /\ UNCHANGED mjsVars

\* ---- controller: yield (_createYield) ------------------------------------
\* state.name === "maybeQueued": the value is buffered
yieldMaybeQueued(v) ==
    /\ name = "maybeQueued"
    /\ itemQueue' = Append(itemQueue, v)
    /\ nAccepted' = nAccepted + 1
    /\ UNCHANGED <<name, waitingQueue, reqs, cleanup, cleanupCalls,
                   cleanupArg, reactions>>

\* Variant of yieldWaitingForValue that starts cleanup when it has served the
\* last waiting request, as the "waitingForEnd" branch does.
yieldWaitingForValue_cleans(v) ==
    /\ name = "waitingForValue"
    /\ waitingQueue' = Tail(waitingQueue)
    /\ reqs' = Settle(reqs, Head(waitingQueue), ValueResult(v))
    /\ nAccepted' = nAccepted + 1
    /\ IF Tail(waitingQueue) = <<>>
       THEN /\ doCleanup(completionValue)
            /\ name' = "waitingForCleanupToFinish"
            /\ reactions' = Append(reactions, Job("yieldEnd", 0))
       ELSE UNCHANGED <<name, cleanup, cleanupCalls, cleanupArg, reactions>>
    /\ UNCHANGED <<itemQueue>>

\* state.name === "waitingForValue": the oldest waiting request gets the value
yieldWaitingForValue(v) ==
    /\ name = "waitingForValue"
    /\ waitingQueue' = Tail(waitingQueue)
    /\ name' = IF Tail(waitingQueue) = <<>> THEN "maybeQueued" ELSE name
    /\ reqs' = Settle(reqs, Head(waitingQueue), ValueResult(v))
    /\ nAccepted' = nAccepted + 1
    /\ UNCHANGED <<itemQueue, cleanup, cleanupCalls, cleanupArg, reactions>>

\* Variant of yieldWaitingForEnd that starts cleanup without testing
\* waitingQueue.isEmpty.
yieldWaitingForEnd_noEmptyTest(v) ==
    /\ name = "waitingForEnd"
    /\ waitingQueue' = Tail(waitingQueue)
    /\ reqs' = Settle(reqs, Head(waitingQueue), ValueResult(v))
    /\ nAccepted' = nAccepted + 1
    /\ IF cleanupCalls = 0
       THEN /\ doCleanup(completionValue)
            /\ reactions' = Append(reactions, Job("yieldEnd", 0))
       ELSE UNCHANGED <<cleanup, cleanupCalls, cleanupArg, reactions>>
    /\ name' = IF Tail(waitingQueue) = <<>> THEN "waitingForCleanupToFinish" ELSE name
    /\ UNCHANGED <<itemQueue>>

\* state.name === "waitingForEnd": the oldest waiting request gets the value;
\* when it was the last one, cleanup starts and the endWaiter follows it
yieldWaitingForEnd(v) ==
    /\ name = "waitingForEnd"
    /\ waitingQueue' = Tail(waitingQueue)
    /\ reqs' = Settle(reqs, Head(waitingQueue), ValueResult(v))
    /\ nAccepted' = nAccepted + 1
    /\ IF Tail(waitingQueue) = <<>>
       THEN /\ doCleanup(completionValue)
            /\ name' = "waitingForCleanupToFinish"
            /\ reactions' = Append(reactions, Job("yieldEnd", 0))
       ELSE UNCHANGED <<name, cleanup, cleanupCalls, cleanupArg, reactions>>
    /\ UNCHANGED <<itemQueue>>

\* Variant of yieldIgnored that still buffers the value behind a queued completion.
yieldIgnored_buffers(v) ==
    /\ name \in {"complete", "endQueued", "waitingForCleanupToFinish"}
    /\ itemQueue' = IF name = "endQueued" THEN Append(itemQueue, v) ELSE itemQueue
    /\ UNCHANGED <<name, waitingQueue, reqs, nAccepted,
                   cleanup, cleanupCalls, cleanupArg, reactions>>

\* "complete", "endQueued", "waitingForCleanupToFinish": nothing happens
yieldIgnored(v) ==
    /\ name \in {"complete", "endQueued", "waitingForCleanupToFinish"}
    /\ UNCHANGED <<name, itemQueue, waitingQueue, reqs, nAccepted,
                   cleanup, cleanupCalls, cleanupArg, reactions>>

createYield ==
    /\ UserRuns
    /\ nYield < MaxYields
    /\ nYield' = nYield + 1
    /\ LET v == nYield + 1
       IN \/ yieldMaybeQueued(v)
          \/ yieldWaitingForValue(v)
          \/ yieldWaitingForEnd(v)
          \/ yieldIgnored(v)
    /\ UNCHANGED <<phase, endWaiter, endAliases, endThens, cleanupOperation,
                   completionValue, finalCV, jobs, nComplete, setBy, completedAt, userActive>>
    /\ UNCHANGED mjsVars

\* ---- controller: return / throw (_createReturn, _createThrow) -------------
\* state.name === "maybeQueued": the completion is queued behind the items
completeMaybeQueued(cv) ==
    /\ name = "maybeQueued"
    /\ name' = "endQueued"
    /\ completionValue' = cv
    /\ setBy' = "producer"
    /\ completedAt' = Len(reqs)
    /\ doCleanup(cv)
    /\ UNCHANGED <<waitingQueue, reactions>>

\* Variant of completeWaiting that registers no reaction for the endWaiter.
completeWaiting_forgetsEndWaiter(cv) ==
    /\ name \in {"waitingForValue", "waitingForEnd"}
    /\ doCleanup(cv)
    /\ waitingQueue' = <<>>
    /\ reactions' = reactions \o JobsFor("waiter", waitingQueue)
    /\ name' = "waitingForCleanupToFinish"
    /\ completionValue' = cv
    /\ setBy' = "producer"
    /\ completedAt' = Len(reqs)

\* "waitingForValue" or "waitingForEnd": every waiting request, then the
\* endWaiter, is settled from the cleanedUp promise
completeWaiting(cv) ==
    /\ name \in {"waitingForValue", "waitingForEnd"}
    /\ doCleanup(cv)
    /\ waitingQueue' = <<>>
    /\ reactions' = reactions \o JobsFor("waiter", waitingQueue)
                      \o (IF name = "waitingForEnd" THEN <<Job("endWaiter", 0)>> ELSE <<>>)
    /\ name' = "waitingForCleanupToFinish"
    /\ completionValue' = cv
    /\ setBy' = "producer"
    /\ completedAt' = Len(reqs)

\* Variant of completeIgnored that overwrites a queued completion value.
completeIgnored_overwrites(cv) ==
    /\ name \in {"endQueued", "waitingForCleanupToFinish", "complete"}
    /\ completionValue' = IF name = "endQueued" THEN cv ELSE completionValue
    /\ UNCHANGED <<name, setBy, completedAt, waitingQueue, reactions,
                   cleanup, cleanupCalls, cleanupArg>>

\* every other state: the call is ignored
completeIgnored(cv) ==
    /\ name \in {"endQueued", "waitingForCleanupToFinish", "complete"}
    /\ UNCHANGED <<name, completionValue, setBy, completedAt, waitingQueue, reactions,
                   cleanup, cleanupCalls, cleanupArg>>

completionMethod(cv) ==
    /\ UserRuns
    /\ nComplete < MaxCompletes
    /\ nComplete' = nComplete + 1
    /\ (completeMaybeQueued(cv) \/ completeWaiting(cv) \/ completeIgnored(cv))
    /\ UNCHANGED <<phase, itemQueue, endWaiter, endAliases, endThens,
                   cleanupOperation, finalCV, jobs, reqs, nYield, nAccepted,
                   userActive>>
    /\ UNCHANGED mjsVars

createReturn ==
    /\ completionMethod(ReturnCompletion(ProducerValue + nComplete + 1))

createThrow ==
    /\ completionMethod(ErrorCompletion(<<ProducerValue + nComplete + 1>>))

\* ---- consumer: next() ----------------------------------------------------
\* The request issued by the call in progress.
NewId == Len(reqs) + 1

\* state.name === "maybeQueued" && !state.itemQueue.isEmpty: the item is dequeued
nextMaybeQueued ==
    /\ name = "maybeQueued"
    /\ itemQueue # <<>>
    /\ itemQueue' = Tail(itemQueue)
    /\ reqs' = Append(reqs, [NewReq("next", NoValue) EXCEPT
                                !.st = "value", !.val = Head(itemQueue)])
    /\ UNCHANGED <<name, waitingQueue, endAliases, reactions, jobs>>

\* "endQueued" with an item left: the item is dequeued before the completion
nextDrain ==
    /\ name = "endQueued"
    /\ itemQueue # <<>>
    /\ itemQueue' = Tail(itemQueue)
    /\ reqs' = Append(reqs, [NewReq("next", NoValue) EXCEPT
                                !.st = "value", !.val = Head(itemQueue)])
    /\ UNCHANGED <<name, waitingQueue, endAliases, reactions, jobs>>

\* Variant of nextWait that does not look at the item queue.
nextWait_ignoresItems ==
    /\ name \in {"maybeQueued", "waitingForValue"}
    /\ reqs' = Append(reqs, NewReq("next", NoValue))
    /\ waitingQueue' = Append(waitingQueue, NewId)
    /\ name' = "waitingForValue"
    /\ UNCHANGED <<itemQueue, endAliases, reactions, jobs>>

\* "waitingForValue" or "maybeQueued" without items: the request waits
nextWait ==
    /\ name \in {"maybeQueued", "waitingForValue"}
    /\ itemQueue = <<>>
    /\ reqs' = Append(reqs, NewReq("next", NoValue))
    /\ waitingQueue' = Append(waitingQueue, NewId)
    /\ name' = "waitingForValue"
    /\ UNCHANGED <<itemQueue, endAliases, reactions, jobs>>

\* Variant of nextEndQueued that replays the queued completion value at once.
nextEndQueued_immediate ==
    /\ name = "endQueued"
    /\ itemQueue = <<>>
    /\ name' = "waitingForCleanupToFinish"
    /\ LET o == FromCompletion(completionValue)
       IN reqs' = Append(reqs, [NewReq("next", NoValue) EXCEPT
                    !.st = o.st, !.ret = o.ret, !.err = o.err])
    /\ reactions' = ThenReactions(<<Job("nextEnd", NewId)>>)
    /\ jobs' = ThenJobs(<<Job("nextEnd", NewId)>>)
    /\ UNCHANGED <<itemQueue, waitingQueue, endAliases>>

\* "endQueued" with no item left: the request follows the cleanedUp promise
nextEndQueued ==
    /\ name = "endQueued"
    /\ itemQueue = <<>>
    /\ name' = "waitingForCleanupToFinish"
    /\ reqs' = Append(reqs, NewReq("next", NoValue))
    /\ reactions' = ThenReactions(<<Job("nextEnd", NewId)>>)
    /\ jobs' = ThenJobs(<<Job("nextEnd", NewId)>>)
    /\ UNCHANGED <<itemQueue, waitingQueue, endAliases>>

\* Variant of nextWaitingForEnd that queues the request behind the waiting ones.
nextWaitingForEnd_waits ==
    /\ name = "waitingForEnd"
    /\ reqs' = Append(reqs, NewReq("next", NoValue))
    /\ waitingQueue' = Append(waitingQueue, NewId)
    /\ UNCHANGED <<name, itemQueue, endAliases, reactions, jobs>>

\* "waitingForEnd": the request is the endWaiter's promise itself
nextWaitingForEnd ==
    /\ name = "waitingForEnd"
    /\ reqs' = Append(reqs, NewReq("next", NoValue))
    /\ endAliases' = endAliases \cup {NewId}
    /\ UNCHANGED <<name, itemQueue, waitingQueue, reactions, jobs>>

\* "waitingForCleanupToFinish": the request follows the cleanedUp promise
nextCleanupPending ==
    /\ name = "waitingForCleanupToFinish"
    /\ reqs' = Append(reqs, NewReq("next", NoValue))
    /\ reactions' = ThenReactions(<<Job("nextWait", NewId)>>)
    /\ jobs' = ThenJobs(<<Job("nextWait", NewId)>>)
    /\ UNCHANGED <<name, itemQueue, waitingQueue, endAliases>>

\* Variant of nextComplete that replays {done: true, value: undefined}.
nextComplete_undefined ==
    /\ name = "complete"
    /\ LET o == IF completionValue.type = "return" THEN DoneResult(NoValue)
                ELSE Rejection(completionValue.reason)
       IN reqs' = Append(reqs, [NewReq("next", NoValue) EXCEPT
                    !.st = o.st, !.ret = o.ret, !.err = o.err])
    /\ UNCHANGED <<name, itemQueue, waitingQueue, endAliases, reactions, jobs>>

\* "complete": the stored completion value is replayed at once
nextComplete ==
    /\ name = "complete"
    /\ LET o == FromCompletion(completionValue)
       IN reqs' = Append(reqs, [NewReq("next", NoValue) EXCEPT
                    !.st = o.st, !.ret = o.ret, !.err = o.err])
    /\ UNCHANGED <<name, itemQueue, waitingQueue, endAliases, reactions, jobs>>

next ==
    /\ phase = "open"
    /\ UserRuns
    /\ Len(reqs) < MaxReqs
    /\ \/ nextMaybeQueued
       \/ nextDrain
       \/ nextWait
       \/ nextEndQueued
       \/ nextWaitingForEnd
       \/ nextCleanupPending
       \/ nextComplete
    /\ UNCHANGED <<phase, endWaiter, endThens, cleanupOperation, completionValue,
                   cleanup, cleanupArg, finalCV, nYield, nComplete, cleanupCalls,
                   setBy, nAccepted, completedAt, userActive>>
    /\ UNCHANGED mjsVars

\* ---- consumer: return(returnValue) ---------------------------------------
\* Variant of returnMaybeQueued that keeps the buffered items for draining.
returnMaybeQueued_keepsItems(x) ==
    /\ name = "maybeQueued"
    /\ doCleanup(ReturnCompletion(x))
    /\ name' = IF itemQueue = <<>> THEN "waitingForCleanupToFinish" ELSE "endQueued"
    /\ completionValue' = ReturnCompletion(x)
    /\ setBy' = "consumer"
    /\ itemQueue' = itemQueue
    /\ reqs' = Append(reqs, NewReq("return", x))
    /\ reactions' = Append(reactions, Job("ret", NewId))
    /\ UNCHANGED <<waitingQueue, endWaiter, endThens, jobs>>

\* "maybeQueued": buffered items are dropped and cleanup starts
returnMaybeQueued(x) ==
    /\ name = "maybeQueued"
    /\ doCleanup(ReturnCompletion(x))
    /\ name' = "waitingForCleanupToFinish"
    /\ completionValue' = ReturnCompletion(x)
    /\ setBy' = "consumer"
    /\ itemQueue' = <<>>
    /\ reqs' = Append(reqs, NewReq("return", x))
    /\ reactions' = Append(reactions, Job("ret", NewId))
    /\ UNCHANGED <<waitingQueue, endWaiter, endThens, jobs>>

\* "waitingForValue": the call waits behind the outstanding next() requests
returnWaitingForValue(x) ==
    /\ name = "waitingForValue"
    /\ name' = "waitingForEnd"
    /\ endWaiter' = NewId
    /\ completionValue' = ReturnCompletion(x)
    /\ setBy' = "consumer"
    /\ reqs' = Append(reqs, NewReq("return", x))
    /\ UNCHANGED <<itemQueue, waitingQueue, endThens, reactions, jobs,
                   cleanup, cleanupCalls, cleanupArg>>

\* "waitingForEnd": endWaiter.promise.then(doneTrue, doneTrue)
returnWaitingForEnd(x) ==
    /\ name = "waitingForEnd"
    /\ reqs' = Append(reqs, NewReq("return", x))
    /\ endThens' = Append(endThens, NewId)
    /\ UNCHANGED <<name, itemQueue, waitingQueue, endWaiter, completionValue, setBy,
                   reactions, jobs, cleanup, cleanupCalls, cleanupArg>>

\* Variant of returnEndQueued that starts cleanup again, as "maybeQueued" does.
returnEndQueued_cleansAgain(x) ==
    /\ name = "endQueued"
    /\ doCleanup(completionValue)
    /\ name' = "waitingForCleanupToFinish"
    /\ itemQueue' = <<>>
    /\ reqs' = Append(reqs, NewReq("return", x))
    /\ reactions' = Append(reactions, Job("ret", NewId))
    /\ UNCHANGED <<waitingQueue, endWaiter, endThens, completionValue, setBy, jobs>>

\* "endQueued": the items still buffered are dropped
returnEndQueued(x) ==
    /\ name = "endQueued"
    /\ name' = "waitingForCleanupToFinish"
    /\ itemQueue' = <<>>
    /\ reqs' = Append(reqs, NewReq("return", x))
    /\ reactions' = ThenReactions(<<Job("ret", NewId)>>)
    /\ jobs' = ThenJobs(<<Job("ret", NewId)>>)
    /\ UNCHANGED <<waitingQueue, endWaiter, endThens, completionValue, setBy,
                   cleanup, cleanupCalls, cleanupArg>>

\* "waitingForCleanupToFinish": the call follows the cleanedUp promise
returnCleanupPending(x) ==
    /\ name = "waitingForCleanupToFinish"
    /\ reqs' = Append(reqs, NewReq("return", x))
    /\ reactions' = ThenReactions(<<Job("ret", NewId)>>)
    /\ jobs' = ThenJobs(<<Job("ret", NewId)>>)
    /\ UNCHANGED <<name, itemQueue, waitingQueue, endWaiter, endThens, completionValue,
                   setBy, cleanup, cleanupCalls, cleanupArg>>

\* The outcome of return() in state "complete": a resolved promise for a return
\* completion, a synchronous throw (no promise) for an error completion.
returnCompleteResult(cv) ==
    IF cv.type = "return" THEN DoneResult(cv.value) ELSE SyncThrow(cv.reason)

returnComplete(x) ==
    /\ name = "complete"
    /\ LET o == returnCompleteResult(completionValue)
       IN reqs' = Append(reqs, [NewReq("return", x) EXCEPT
                    !.st = o.st, !.ret = o.ret, !.err = o.err])
    /\ UNCHANGED <<name, itemQueue, waitingQueue, endWaiter, endThens, completionValue,
                   setBy, reactions, jobs, cleanup, cleanupCalls, cleanupArg>>

return ==
    /\ phase = "open"
    /\ UserRuns
    /\ Len(reqs) < MaxReqs
    /\ LET x == ConsumerValue + NewId
       IN \/ returnMaybeQueued(x)
          \/ returnWaitingForValue(x)
          \/ returnWaitingForEnd(x)
          \/ returnEndQueued(x)
          \/ returnCleanupPending(x)
          \/ returnComplete(x)
    /\ UNCHANGED <<phase, endAliases, cleanupOperation, finalCV, nYield, nComplete,
                   nAccepted, completedAt, userActive>>
    /\ UNCHANGED mjsVars

\* ---- promise jobs --------------------------------------------------------
\* endWaiter.resolver.resolve/reject: the endWaiter's promise settles, with it
\* every request that is that promise, and its then-reactions are queued.
SettleEndWaiter(rs, o) == SettleAll(rs, {endWaiter} \cup endAliases, o)

\* this._state = Object.freeze({ name: "complete", completionValue })
SetComplete == name' = "complete" /\ completionValue' = finalCV

\* constructor: cleanedUp.then(() => state = complete)
jobCtor(j) ==
    /\ j.k = "ctor"
    /\ SetComplete
    /\ jobs' = Tail(jobs)
    /\ UNCHANGED reqs

\* yield in "waitingForEnd": the state becomes complete and the endWaiter settles
jobYieldEnd(j) ==
    /\ j.k = "yieldEnd"
    /\ SetComplete
    /\ reqs' = SettleEndWaiter(reqs, FromCompletion(finalCV))
    /\ jobs' = Tail(jobs) \o JobsFor("doneTrue", endThens)

\* Variant of jobWaiter that gives the completion value to the oldest waiting
\* request only and {done: true, value: undefined} to the others.
jobWaiter_synthetic(j) ==
    /\ j.k = "waiter"
    /\ reqs' = Settle(reqs, j.r,
                      IF \E k \in 1..(j.r - 1) : reqs[k].st \in {"done", "rejected"}
                      THEN DoneResult(NoValue) ELSE FromCompletion(finalCV))
    /\ jobs' = Tail(jobs)
    /\ UNCHANGED <<name, completionValue>>

\* Variant of jobWaiter whose reaction settles nothing.
jobWaiter_forgets(j) ==
    /\ j.k = "waiter"
    /\ jobs' = Tail(jobs)
    /\ UNCHANGED <<reqs, name, completionValue>>

\* controller return/throw: a request that was waiting settles
jobWaiter(j) ==
    /\ j.k = "waiter"
    /\ reqs' = Settle(reqs, j.r, FromCompletion(finalCV))
    /\ jobs' = Tail(jobs)
    /\ UNCHANGED <<name, completionValue>>

\* controller return/throw in "waitingForEnd": the endWaiter settles
jobEndWaiter(j) ==
    /\ j.k = "endWaiter"
    /\ reqs' = SettleEndWaiter(reqs, FromCompletion(finalCV))
    /\ jobs' = Tail(jobs) \o JobsFor("doneTrue", endThens)
    /\ UNCHANGED <<name, completionValue>>

\* next() in "endQueued": the state becomes complete and the request settles
jobNextEnd(j) ==
    /\ j.k = "nextEnd"
    /\ SetComplete
    /\ reqs' = Settle(reqs, j.r, FromCompletion(finalCV))
    /\ jobs' = Tail(jobs)

\* next() in "waitingForCleanupToFinish": the request settles
jobNextWait(j) ==
    /\ j.k = "nextWait"
    /\ reqs' = Settle(reqs, j.r, FromCompletion(finalCV))
    /\ jobs' = Tail(jobs)
    /\ UNCHANGED <<name, completionValue>>

\* return(): the state becomes complete and the request settles
jobRet(j) ==
    /\ j.k = "ret"
    /\ SetComplete
    /\ reqs' = Settle(reqs, j.r, FromCompletion(finalCV))
    /\ jobs' = Tail(jobs)

\* return() in "waitingForEnd": doneTrue, whatever the endWaiter settled with
jobDoneTrue(j) ==
    /\ j.k = "doneTrue"
    /\ reqs' = Settle(reqs, j.r, DoneResult(reqs[j.r].arg))
    /\ jobs' = Tail(jobs)
    /\ UNCHANGED <<name, completionValue>>

runJob ==
    /\ ~userActive
    /\ jobs # <<>>
    /\ LET j == Head(jobs)
       IN \/ jobCtor(j)
          \/ jobYieldEnd(j)
          \/ jobWaiter(j)
          \/ jobEndWaiter(j)
          \/ jobNextEnd(j)
          \/ jobNextWait(j)
          \/ jobRet(j)
          \/ jobDoneTrue(j)
    /\ userActive' = (jobs' = <<>>)
    /\ UNCHANGED <<phase, itemQueue, waitingQueue, endWaiter, endAliases, endThens,
                   cleanupOperation, cleanup, cleanupArg, finalCV, reactions,
                   nYield, nComplete, cleanupCalls, setBy, nAccepted, completedAt>>
    /\ UNCHANGED mjsVars

\* User code queues a promise job of its own (it awaits, or chains a then).
\* Before cleanup has started no reaction of the stream can be queued, and a
\* job of the user's would run as the rest of its task does.
userSchedule ==
    /\ userActive
    /\ cleanup \in {"running", "ok", "failed"}
    /\ Cardinality(UserJobs) < MaxUserJobs
    /\ jobs' = Append(jobs, UserJob)
    /\ UNCHANGED <<phase, name, itemQueue, waitingQueue, endWaiter, endAliases,
                   endThens, cleanupOperation, completionValue, cleanup, cleanupArg,
                   finalCV, reactions, reqs, nYield, nComplete, cleanupCalls,
                   setBy, nAccepted, completedAt, userActive>>
    /\ UNCHANGED mjsVars

\* The running user code ends: the queued promise jobs take their turn.
userEnd ==
    /\ userActive
    /\ jobs # <<>>
    /\ userActive' = FALSE
    /\ UNCHANGED <<phase, name, itemQueue, waitingQueue, endWaiter, endAliases,
                   endThens, cleanupOperation, completionValue, cleanup, cleanupArg,
                   finalCV, reactions, jobs, reqs, nYield, nComplete,
                   cleanupCalls, setBy, nAccepted, completedAt>>
    /\ UNCHANGED mjsVars

\* The user's promise job at the head of the queue starts.
userJobStart ==
    /\ ~userActive
    /\ jobs # <<>>
    /\ Head(jobs) = UserJob
    /\ jobs' = Tail(jobs)
    /\ userActive' = TRUE
    /\ UNCHANGED <<phase, name, itemQueue, waitingQueue, endWaiter, endAliases,
                   endThens, cleanupOperation, completionValue, cleanup, cleanupArg,
                   finalCV, reactions, reqs, nYield, nComplete, cleanupCalls,
                   setBy, nAccepted, completedAt>>
    /\ UNCHANGED mjsVars

Next ==
    \/ constructor
    \/ createYield
    \/ createReturn
    \/ createThrow
    \/ next
    \/ return
    \/ runJob
    \/ userSchedule
    \/ userEnd
    \/ userJobStart
    \/ \E ok \in BOOLEAN : doCleanupSettle(ok)

Spec == Init /\ [][Next]_vars

\* The scheduling the claims about progress rely on: the code that is running
\* runs to completion (userEnd), and the job queue runs every queued promise
\* job, a reaction of the stream (runJob) or a job of the user's
\* (userJobStart), as soon as no code is running.
Fairness ==
    /\ WF_vars(runJob)
    /\ WF_vars(userEnd)
    /\ WF_vars(userJobStart)

SpecFair == Spec /\ Fairness

\* ==== src/Stream.mjs ========================================================
\* The earlier variant of the class: a bounded item queue (queue option), a
\* cancel signal, and the states empty, queued, waiting, endWaiting, endNext,
\* endQueued, cleanupPending and complete.  Its cleanedUp promise carries no
\* completion value: it fulfils with undefined or rejects with the cleanup error.

\* new CancelError(...): every rejection creates an error object of its own;
\* CancelErr + i is the one created for request i.
CancelErr == 50
CancelError(i) == <<CancelErr + i>>

\* The capacities the stream is constructed with.
QueueSizes == {1, Infinity}

\* async _doCleanup: cleanupOperation() is called at once; the constructor's
\* placeholder only creates the cleanupComplete deferred.
doCleanupMjs ==
    IF cleanupOperation = "placeholder"
    THEN cleanup' = "deferred" /\ UNCHANGED cleanupCalls
    ELSE cleanup' = "running" /\ cleanupCalls' = cleanupCalls + 1

\* The reactions on the endWaiter's promise, queued when it settles.
EndThenJobs == JobsFor("endThen", endThens)

\* The state after construction: the signal had not fired, or it had and the
\* constructor returned a cancelled, complete stream.
InitMjsWith(sizes) ==
    /\ \/ phase = "init" /\ name = "empty" /\ cancelled = FALSE
       \/ phase = "open" /\ name = "complete" /\ cancelled = TRUE
    /\ maxSize \in sizes
    /\ options = DefaultOptions
    /\ itemQueue = <<>>
    /\ waitingQueue = <<>>
    /\ endWaiter = 0
    /\ endAliases = {}
    /\ endThens = <<>>
    /\ cleanupOperation = "placeholder"
    /\ completionValue = NoCompletion
    /\ cleanup = "idle"
    /\ cleanupArg = NoCompletion
    /\ finalCV = NoCompletion
    /\ reactions = <<>>
    /\ jobs = <<>>
    /\ reqs = <<>>
    /\ nYield = 0
    /\ nComplete = 0
    /\ cleanupCalls = 0
    /\ setBy = "none"
    /\ nAccepted = 0
    /\ completedAt = 0
    /\ userActive = TRUE

InitMjs == InitMjsWith(QueueSizes)

\* The initializer has returned: the real cleanup runs now if the stream was
\* completed meanwhile, and is stored in the state otherwise.
constructorMjs ==
    /\ phase = "init"
    /\ phase' = "open"
    /\ cleanupOperation' = "real"
    /\ IF cleanup = "deferred"
       THEN cleanup' = "running" /\ cleanupCalls' = cleanupCalls + 1
       ELSE UNCHANGED <<cleanup, cleanupCalls>>
    /\ UNCHANGED <<name, itemQueue, waitingQueue, endWaiter, endAliases, endThens,
                   completionValue, cleanupArg, finalCV, reactions, jobs, reqs,
                   nYield, nComplete, setBy, nAccepted, completedAt, userActive,
                   cancelled, maxSize, options>>

\* (the same, popping the value pushed last)
PushBounded_dropNewest(q, v) ==
    IF Len(q) + 1 > maxSize THEN q ELSE Append(q, v)

\* Variant of PushBounded that evicts as soon as the queue is at its capacity.
PushBounded_evictsAtCapacity(q, v) ==
    IF Len(q) + 1 >= maxSize THEN Tail(Append(q, v)) ELSE Append(q, v)

\* itemQueue.push(value); if (itemQueue.length > maxSize) itemQueue.shift()
PushBounded(q, v) ==
    IF Len(q) + 1 > maxSize THEN Tail(Append(q, v)) ELSE Append(q, v)

\* _yield in "empty" or "queued"
yieldQueueMjs(v) ==
    /\ name \in {"empty", "queued"}
    /\ itemQueue' = PushBounded(itemQueue, v)
    /\ name' = IF Len(PushBounded(itemQueue, v)) > 0 THEN "queued" ELSE name
    /\ nAccepted' = nAccepted + 1
    /\ UNCHANGED <<waitingQueue, reqs, cleanup, cleanupCalls, reactions>>

\* _yield in "waiting"
yieldWaitingMjs(v) ==
    /\ name = "waiting"
    /\ waitingQueue' = Tail(waitingQueue)
    /\ name' = IF Tail(waitingQueue) = <<>> THEN "empty" ELSE name
    /\ reqs' = Settle(reqs, Head(waitingQueue), ValueResult(v))
    /\ nAccepted' = nAccepted + 1
    /\ UNCHANGED <<itemQueue, cleanup, cleanupCalls, reactions>>

\* _yield in "endWaiting"
yieldEndWaitingMjs(v) ==
    /\ name = "endWaiting"
    /\ waitingQueue' = Tail(waitingQueue)
    /\ reqs' = Settle(reqs, Head(waitingQueue), ValueResult(v))
    /\ nAccepted' = nAccepted + 1
    /\ IF Tail(waitingQueue) = <<>>
       THEN /\ doCleanupMjs
            /\ name' = "cleanupPending"
            /\ reactions' = Append(reactions, Job("yieldEnd", 0))
       ELSE UNCHANGED <<name, cleanup, cleanupCalls, reactions>>
    /\ UNCHANGED <<itemQueue>>

\* _yield in every other state
yieldIgnoredMjs(v) ==
    /\ name \in {"endNext", "endQueued", "cleanupPending", "complete"}
    /\ UNCHANGED <<name, itemQueue, waitingQueue, reqs, nAccepted,
                   cleanup, cleanupCalls, reactions>>

\* The initializer was invoked (it is not when the signal had already fired),
\* so the controller exists.
InitializerInvoked_always == TRUE

InitializerInvoked == ~(phase = "open" /\ cleanupOperation = "placeholder")

yieldMjsUpTo(n) ==
    /\ UserRuns
    /\ InitializerInvoked
    /\ nYield < n
    /\ nYield' = nYield + 1
    /\ LET v == nYield + 1
       IN \/ yieldQueueMjs(v)
          \/ yieldWaitingMjs(v)
          \/ yieldEndWaitingMjs(v)
          \/ yieldIgnoredMjs(v)
    /\ UNCHANGED <<phase, endWaiter, endAliases, endThens, cleanupOperation,
                   completionValue, cleanupArg, finalCV, jobs, nComplete, setBy,
                   completedAt, userActive, cancelled, maxSize, options>>

yieldMjs == yieldMjsUpTo(MaxYields)

\* completionMethod in "empty" or "queued"
completeQueueMjs(cv) ==
    /\ name \in {"empty", "queued"}
    /\ name' = IF name = "empty" THEN "endNext" ELSE "endQueued"
    /\ completionValue' = cv
    /\ setBy' = "producer"
    /\ completedAt' = Len(reqs)
    /\ doCleanupMjs
    /\ UNCHANGED <<waitingQueue, reactions>>

\* completionMethod in "waiting" or "endWaiting": the oldest waiting request
\* is settled from the completion when cleanup succeeds, the others and the
\* endWaiter resolve {done: true, value: undefined}
completeWaitingMjs(cv) ==
    /\ name \in {"waiting", "endWaiting"}
    /\ doCleanupMjs
    /\ waitingQueue' = <<>>
    /\ reactions' = reactions \o <<Job("consumer", Head(waitingQueue))>>
                      \o JobsFor("extraConsumer", Tail(waitingQueue))
                      \o (IF name = "endWaiting" THEN <<Job("resolveEnd", 0)>> ELSE <<>>)
    /\ name' = "cleanupPending"
    /\ completionValue' = cv
    /\ setBy' = "producer"
    /\ completedAt' = Len(reqs)

\* completionMethod in every other state
completeIgnoredMjs(cv) ==
    /\ name \in {"endNext", "endQueued", "cleanupPending", "complete"}
    /\ UNCHANGED <<name, completionValue, setBy, completedAt, waitingQueue, reactions,
                   cleanup, cleanupCalls>>

completionMethodMjs(cv) ==
    /\ UserRuns
    /\ InitializerInvoked
    /\ nComplete < MaxCompletes
    /\ nComplete' = nComplete + 1
    /\ (completeQueueMjs(cv) \/ completeWaitingMjs(cv) \/ completeIgnoredMjs(cv))
    /\ UNCHANGED <<phase, itemQueue, endWaiter, endAliases, endThens,
                   cleanupOperation, cleanupArg, finalCV, jobs, reqs, nYield,
                   nAccepted, userActive, cancelled, maxSize, options>>

returnControllerMjs ==
    /\ completionMethodMjs(ReturnCompletion(ProducerValue + nComplete + 1))

throwControllerMjs ==
    /\ completionMethodMjs(ErrorCompletion(<<ProducerValue + nComplete + 1>>))

\* An immediately settled request: Promise.resolve(...) or Promise.reject(...).
SettledReq(kind, arg, o) ==
    [NewReq(kind, arg) EXCEPT !.st = o.st, !.val = o.val, !.ret = o.ret, !.err = o.err]

\* next() on a cancelled stream
nextCancelledMjs ==
    /\ cancelled
    /\ reqs' = Append(reqs, SettledReq("next", NoValue, Rejection(CancelError(NewId))))
    /\ UNCHANGED <<name, itemQueue, waitingQueue, endThens, reactions, jobs>>

\* next() in "waiting" or "empty"
nextWaitMjs ==
    /\ ~cancelled
    /\ name \in {"waiting", "empty"}
    /\ reqs' = Append(reqs, NewReq("next", NoValue))
    /\ waitingQueue' = Append(waitingQueue, NewId)
    /\ name' = "waiting"
    /\ UNCHANGED <<itemQueue, endThens, reactions, jobs>>

\* next() in "queued" or "endQueued": the oldest buffered value
nextQueuedMjs ==
    /\ ~cancelled
    /\ name \in {"queued", "endQueued"}
    /\ itemQueue' = Tail(itemQueue)
    /\ name' = IF Tail(itemQueue) # <<>> THEN name
               ELSE IF name = "queued" THEN "empty" ELSE "endNext"
    /\ reqs' = Append(reqs, SettledReq("next", NoValue, ValueResult(Head(itemQueue))))
    /\ UNCHANGED <<waitingQueue, endThens, reactions, jobs>>

\* next() in "endNext": the request owns the completion
nextEndNextMjs ==
    /\ ~cancelled
    /\ name = "endNext"
    /\ name' = "cleanupPending"
    /\ reqs' = Append(reqs, NewReq("next", NoValue))
    /\ reactions' = ThenReactions(<<Job("completion", NewId)>>)
    /\ jobs' = ThenJobs(<<Job("completion", NewId)>>)
    /\ UNCHANGED <<itemQueue, waitingQueue, endThens>>

\* next() in "endWaiting": endWaiter.promise.then(_ => ({done: true, value: undefined}))
nextEndWaitingMjs ==
    /\ ~cancelled
    /\ name = "endWaiting"
    /\ reqs' = Append(reqs, NewReq("next", NoValue))
    /\ endThens' = Append(endThens, NewId)
    /\ UNCHANGED <<name, itemQueue, waitingQueue, reactions, jobs>>

\* Variant of nextCleanupPendingMjs without the rejection handler: a cleanup
\* failure reaches the request.
nextCleanupPendingMjs_surfaces ==
    /\ ~cancelled
    /\ name = "cleanupPending"
    /\ reqs' = Append(reqs, NewReq("next", NoValue))
    /\ reactions' = ThenReactions(<<Job("returned", NewId)>>)
    /\ jobs' = ThenJobs(<<Job("returned", NewId)>>)
    /\ UNCHANGED <<name, itemQueue, waitingQueue, endThens>>

\* next() in "cleanupPending": cleanedUp.then(doneTrue, doneTrue)
nextCleanupPendingMjs ==
    /\ ~cancelled
    /\ name = "cleanupPending"
    /\ reqs' = Append(reqs, NewReq("next", NoValue))
    /\ reactions' = ThenReactions(<<Job("doneTrue", NewId)>>)
    /\ jobs' = ThenJobs(<<Job("doneTrue", NewId)>>)
    /\ UNCHANGED <<name, itemQueue, waitingQueue, endThens>>

\* next() in "complete"
nextCompleteMjs ==
    /\ ~cancelled
    /\ name = "complete"
    /\ reqs' = Append(reqs, SettledReq("next", NoValue, DoneResult(NoValue)))
    /\ UNCHANGED <<name, itemQueue, waitingQueue, endThens, reactions, jobs>>

nextMjs ==
    /\ phase = "open"
    /\ UserRuns
    /\ Len(reqs) < MaxReqs
    /\ \/ nextCancelledMjs
       \/ nextWaitMjs
       \/ nextQueuedMjs
       \/ nextEndNextMjs
       \/ nextEndWaitingMjs
       \/ nextCleanupPendingMjs
       \/ nextCompleteMjs
    /\ UNCHANGED <<phase, endWaiter, endAliases, cleanupOperation, completionValue,
                   cleanup, cleanupArg, finalCV, nYield, nComplete, cleanupCalls,
                   setBy, nAccepted, completedAt, userActive, cancelled, maxSize, options>>

\* return() on a cancelled stream
returnCancelledMjs(x) ==
    /\ cancelled
    /\ reqs' = Append(reqs, SettledReq("return", x, Rejection(CancelError(NewId))))
    /\ UNCHANGED <<name, itemQueue, endWaiter, endThens, reactions, jobs,
                   cleanup, cleanupCalls, setBy>>

\* return() in "empty" or "queued": cleanup starts, buffered values are dropped
returnQueueMjs(x) ==
    /\ ~cancelled
    /\ name \in {"empty", "queued"}
    /\ doCleanupMjs
    /\ name' = "cleanupPending"
    /\ itemQueue' = <<>>
    /\ setBy' = "consumer"
    /\ reqs' = Append(reqs, NewReq("return", x))
    /\ reactions' = Append(reactions, Job("returned", NewId))
    /\ UNCHANGED <<endWaiter, endThens, jobs>>

\* return() in "waiting"
returnWaitingMjs(x) ==
    /\ ~cancelled
    /\ name = "waiting"
    /\ name' = "endWaiting"
    /\ endWaiter' = NewId
    /\ setBy' = "consumer"
    /\ reqs' = Append(reqs, NewReq("return", x))
    /\ UNCHANGED <<itemQueue, endThens, reactions, jobs, cleanup, cleanupCalls>>

\* return() in "endWaiting": endWaiter.promise.then(doneTrue, doneTrue)
returnEndWaitingMjs(x) ==
    /\ ~cancelled
    /\ name = "endWaiting"
    /\ reqs' = Append(reqs, NewReq("return", x))
    /\ endThens' = Append(endThens, NewId)
    /\ UNCHANGED <<name, itemQueue, endWaiter, reactions, jobs, cleanup,
                   cleanupCalls, setBy>>

\* return() in "endNext" or "endQueued": the request owns the completion
returnEndMjs(x) ==
    /\ ~cancelled
    /\ name \in {"endNext", "endQueued"}
    /\ name' = "cleanupPending"
    /\ itemQueue' = <<>>
    /\ reqs' = Append(reqs, NewReq("return", x))
    /\ reactions' = ThenReactions(<<Job("completion", NewId)>>)
    /\ jobs' = ThenJobs(<<Job("completion", NewId)>>)
    /\ UNCHANGED <<endWaiter, endThens, cleanup, cleanupCalls, setBy>>

\* return() in "cleanupPending": cleanedUp.then(doneTrue, doneTrue)
returnCleanupPendingMjs(x) ==
    /\ ~cancelled
    /\ name = "cleanupPending"
    /\ reqs' = Append(reqs, NewReq("return", x))
    /\ reactions' = ThenReactions(<<Job("doneTrue", NewId)>>)
    /\ jobs' = ThenJobs(<<Job("doneTrue", NewId)>>)
    /\ UNCHANGED <<name, itemQueue, endWaiter, endThens, cleanup, cleanupCalls, setBy>>

\* return() in "complete"
returnCompleteMjs(x) ==
    /\ ~cancelled
    /\ name = "complete"
    /\ reqs' = Append(reqs, SettledReq("return", x, DoneResult(x)))
    /\ UNCHANGED <<name, itemQueue, endWaiter, endThens, reactions, jobs,
                   cleanup, cleanupCalls, setBy>>

returnMjs ==
    /\ phase = "open"
    /\ UserRuns
    /\ Len(reqs) < MaxReqs
    /\ LET x == ConsumerValue + NewId
       IN \/ returnCancelledMjs(x)
          \/ returnQueueMjs(x)
          \/ returnWaitingMjs(x)
          \/ returnEndWaitingMjs(x)
          \/ returnEndMjs(x)
          \/ returnCleanupPendingMjs(x)
          \/ returnCompleteMjs(x)
    /\ UNCHANGED <<phase, waitingQueue, endAliases, cleanupOperation, completionValue,
                   cleanupArg, finalCV, nYield, nComplete, nAccepted, completedAt,
                   userActive, cancelled, maxSize, options>>

\* waiter.reject(new CancelError(...)) for every waiting request
RECURSIVE RejectWaiters(_, _)
RejectWaiters(rs, q) ==
    IF q = <<>> THEN rs
    ELSE RejectWaiters(Settle(rs, Head(q), Rejection(CancelError(Head(q)))), Tail(q))

\* cancel in "empty" or "queued": cleanup starts
cancelQueueMjs ==
    /\ name \in {"empty", "queued"}
    /\ doCleanupMjs
    /\ name' = "cleanupPending"
    /\ itemQueue' = <<>>
    /\ reactions' = Append(reactions, Job("cancelled", 0))
    /\ UNCHANGED <<waitingQueue, reqs, jobs>>

\* cancel in "endQueued": the buffered values and the completion are dropped
cancelEndQueuedMjs ==
    /\ name = "endQueued"
    /\ name' = "cleanupPending"
    /\ itemQueue' = <<>>
    /\ UNCHANGED <<waitingQueue, reqs, jobs, reactions, cleanup, cleanupCalls>>

\* cancel in "waiting" or "endWaiting": cleanup starts and every waiting
\* request, and the endWaiter, is rejected
cancelWaitingMjs ==
    /\ name \in {"waiting", "endWaiting"}
    /\ doCleanupMjs
    /\ reqs' = LET rs == RejectWaiters(reqs, waitingQueue)
               IN IF name = "endWaiting"
                  THEN Settle(rs, endWaiter, Rejection(CancelError(endWaiter)))
                  ELSE rs
    /\ jobs' = IF name = "endWaiting" THEN jobs \o EndThenJobs ELSE jobs
    /\ waitingQueue' = <<>>
    /\ name' = "cleanupPending"
    /\ reactions' = Append(reactions, Job("cancelled", 0))
    /\ UNCHANGED <<itemQueue>>

\* cancel in "cleanupPending" or "complete": nothing to do; in "endNext" the
\* callback throws 'Impossible state' and leaves the state as it is
cancelOtherMjs ==
    /\ name \in {"cleanupPending", "complete", "endNext"}
    /\ UNCHANGED <<name, itemQueue, waitingQueue, reqs, jobs, reactions,
                   cleanup, cleanupCalls>>

\* The cancel signal fires: the subscribed callback runs.
cancelMjs ==
    /\ phase = "open"
    /\ UserRuns
    /\ InitializerInvoked
    /\ ~cancelled
    /\ cancelled' = TRUE
    /\ \/ cancelQueueMjs
       \/ cancelEndQueuedMjs
       \/ cancelWaitingMjs
       \/ cancelOtherMjs
    /\ UNCHANGED <<phase, endWaiter, endAliases, endThens, cleanupOperation,
                   completionValue, cleanupArg, finalCV, nYield, nComplete, setBy,
                   nAccepted, completedAt, userActive, maxSize, options>>

\* The cleanup operation's result settles: the cleanedUp promise fulfils (ok)
\* or rejects with the cleanup error, and its reactions are queued in order.
doCleanupSettleMjs(ok) ==
    /\ phase = "open"
    /\ cleanup = "running"
    /\ (~userActive \/ jobs = <<>>)
    /\ userActive' = (jobs \o reactions = <<>>)
    /\ cleanup' = IF ok THEN "ok" ELSE "failed"
    /\ jobs' = jobs \o reactions
    /\ reactions' = <<>>
    /\ UNCHANGED <<phase, name, itemQueue, waitingQueue, endWaiter, endAliases,
                   endThens, cleanupOperation, completionValue, cleanupArg, finalCV,
                   reqs, nYield, nComplete, cleanupCalls, setBy, nAccepted,
                   completedAt, cancelled, maxSize, options>>

\* The outcome a reaction that owns the completion gives its request:
\* the completion when cleanup succeeded, the cleanup error when it failed.
CompletionOrCleanupError ==
    IF cleanup = "ok" THEN FromCompletion(completionValue)
    ELSE Rejection(<<CleanupErr>>)

\* _yield in "endWaiting": the state becomes complete and the endWaiter settles
jobYieldEndMjs(j) ==
    /\ j.k = "yieldEnd"
    /\ name' = "complete"
    /\ reqs' = Settle(reqs, endWaiter,
                      IF cleanup = "ok" THEN DoneResult(NoValue)
                      ELSE Rejection(<<CleanupErr>>))
    /\ jobs' = Tail(jobs) \o EndThenJobs

\* completionMethod: the oldest waiting request; cleanedUp.then has no
\* rejection handler, so nothing happens when cleanup failed
jobConsumerMjs(j) ==
    /\ j.k = "consumer"
    /\ IF cleanup = "ok"
       THEN /\ name' = "complete"
            /\ reqs' = Settle(reqs, j.r, FromCompletion(completionValue))
       ELSE UNCHANGED <<name, reqs>>
    /\ jobs' = Tail(jobs)

\* Variant of jobExtraConsumerMjs that settles the request from the completion.
jobExtraConsumerMjs_real(j) ==
    /\ j.k = "extraConsumer"
    /\ reqs' = Settle(reqs, j.r, CompletionOrCleanupError)
    /\ jobs' = Tail(jobs)
    /\ UNCHANGED name

\* completionMethod: another waiting request
jobExtraConsumerMjs(j) ==
    /\ j.k = "extraConsumer"
    /\ reqs' = Settle(reqs, j.r, DoneResult(NoValue))
    /\ jobs' = Tail(jobs)
    /\ UNCHANGED name

\* completionMethod in "endWaiting": resolveEnd
jobResolveEndMjs(j) ==
    /\ j.k = "resolveEnd"
    /\ reqs' = Settle(reqs, endWaiter, DoneResult(NoValue))
    /\ jobs' = Tail(jobs) \o EndThenJobs
    /\ UNCHANGED name

\* next() in "endNext", return() in "endNext" or "endQueued"
jobCompletionMjs(j) ==
    /\ j.k = "completion"
    /\ name' = "complete"
    /\ reqs' = Settle(reqs, j.r, CompletionOrCleanupError)
    /\ jobs' = Tail(jobs)

\* next() or return() in "cleanupPending": doneTrue
jobDoneTrueMjs(j) ==
    /\ j.k = "doneTrue"
    /\ reqs' = Settle(reqs, j.r, DoneResult(reqs[j.r].arg))
    /\ jobs' = Tail(jobs)
    /\ UNCHANGED name

\* return() in "empty" or "queued"
jobReturnedMjs(j) ==
    /\ j.k = "returned"
    /\ name' = "complete"
    /\ reqs' = Settle(reqs, j.r,
                      IF cleanup = "ok" THEN DoneResult(reqs[j.r].arg)
                      ELSE Rejection(<<CleanupErr>>))
    /\ jobs' = Tail(jobs)

\* cancel: the state becomes complete when cleanup has settled
jobCancelledMjs(j) ==
    /\ j.k = "cancelled"
    /\ name' = "complete"
    /\ jobs' = Tail(jobs)
    /\ UNCHANGED reqs

\* A reaction on the endWaiter's promise: next() in "endWaiting" has no
\* rejection handler and passes the endWaiter's rejection on; return() uses
\* doneTrue for both outcomes
jobEndThenMjs(j) ==
    /\ j.k = "endThen"
    /\ reqs' = Settle(reqs, j.r,
                      IF reqs[j.r].kind = "next" /\ reqs[endWaiter].st = "rejected"
                      THEN Rejection(reqs[endWaiter].err)
                      ELSE DoneResult(reqs[j.r].arg))
    /\ jobs' = Tail(jobs)
    /\ UNCHANGED name

runJobMjs ==
    /\ ~userActive
    /\ jobs # <<>>
    /\ LET j == Head(jobs)
       IN \/ jobYieldEndMjs(j)
          \/ jobConsumerMjs(j)
          \/ jobExtraConsumerMjs(j)
          \/ jobResolveEndMjs(j)
          \/ jobCompletionMjs(j)
          \/ jobDoneTrueMjs(j)
          \/ jobReturnedMjs(j)
          \/ jobCancelledMjs(j)
          \/ jobEndThenMjs(j)
    /\ userActive' = (jobs' = <<>>)
    /\ UNCHANGED <<phase, itemQueue, waitingQueue, endWaiter, endAliases, endThens,
                   cleanupOperation, completionValue, cleanup, cleanupArg, finalCV,
                   reactions, nYield, nComplete, cleanupCalls, setBy, nAccepted,
                   completedAt, cancelled, maxSize, options>>

NextMjs ==
    \/ constructorMjs
    \/ yieldMjs
    \/ returnControllerMjs
    \/ throwControllerMjs
    \/ nextMjs
    \/ returnMjs
    \/ cancelMjs
    \/ runJobMjs
    \/ userSchedule
    \/ userEnd
    \/ userJobStart
    \/ \E ok \in BOOLEAN : doCleanupSettleMjs(ok)

SpecMjs == InitMjs /\ [][NextMjs]_vars

\* ---- the bounded item queue of src/Stream.mjs ------------------------------
\* The stream with a producer that yields more often, for every small
\* capacity, and a consumer that only calls next(): it never returns and the
\* cancel signal never fires.
MaxQueueYields == 4
BoundedSizes == {0, 1, 2, Infinity}

NextQueueMjs ==
    \/ constructorMjs
    \/ yieldMjsUpTo(MaxQueueYields)
    \/ returnControllerMjs
    \/ throwControllerMjs
    \/ nextMjs
    \/ runJobMjs
    \/ userEnd
    \/ \E ok \in BOOLEAN : doCleanupSettleMjs(ok)

InitQueueMjs == InitMjsWith(BoundedSizes) /\ ~cancelled

SpecQueueMjs == InitQueueMjs /\ [][NextQueueMjs]_vars

\* ==== src/tests/_helpers/isResolved.mjs, class Stream (lines 197-564) ========
\* The later variant of the class, with an abort signal and the state
\* "aborted".  Every pending request is a Deferred whose resolver waits in the
\* one waiting queue the states share; #finalizeCleanup awaits the cleanedUp
\* promise and then settles the waiting requests from the merged completion.

\* new AbortError("Stream has been aborted"): every rejection creates an error
\* object of its own; AbortErr + i is the one created for request i, AbortErr
\* the one #abort passes to #finalizeCleanup.
AbortErr == 60
AbortError(i) == <<AbortErr + i>>

\* The state after construction: the signal was not aborted, or it was and the
\* constructor returned an aborted stream without invoking the initializer.
InitAbortable ==
    /\ \/ phase = "init" /\ name = "maybeQueued" /\ cancelled = FALSE
       \/ phase = "open" /\ name = "aborted" /\ cancelled = TRUE
    /\ itemQueue = <<>>
    /\ waitingQueue = <<>>
    /\ endWaiter = 0
    /\ endAliases = {}
    /\ endThens = <<>>
    /\ cleanupOperation = "placeholder"
    /\ completionValue = NoCompletion
    /\ cleanup = "idle"
    /\ cleanupArg = NoCompletion
    /\ finalCV = NoCompletion
    /\ reactions = <<>>
    /\ jobs = <<>>
    /\ reqs = <<>>
    /\ nYield = 0
    /\ nComplete = 0
    /\ cleanupCalls = 0
    /\ setBy = "none"
    /\ nAccepted = 0
    /\ completedAt = 0
    /\ userActive = TRUE
    /\ maxSize = Infinity
    /\ options = DefaultOptions

\* promiseTry(cleanupOperation): the operation is called at once; the
\* constructor's placeholder only creates the cleanupComplete Deferred.
promiseTry ==
    IF cleanupOperation = "placeholder"
    THEN cleanup' = "deferred" /\ UNCHANGED cleanupCalls
    ELSE cleanup' = "running" /\ cleanupCalls' = cleanupCalls + 1

\* The synchronous part of #finalizeCleanup: the state becomes
\* waitingForCleanupToFinish unless the stream is aborted, and the rest of the
\* function waits for the cleanedUp promise, holding the completion value.
finalizeCleanup(cv, aborting) ==
    /\ name' = IF aborting THEN "aborted" ELSE "waitingForCleanupToFinish"
    /\ completionValue' = IF aborting THEN NoCompletion ELSE cv
    /\ cleanupArg' = cv
    /\ reactions' = ThenReactions(<<Job("finalize", 0)>>)
    /\ jobs' = ThenJobs(<<Job("finalize", 0)>>)

\* The initializer has returned: the real cleanup runs now if the stream was
\* completed meanwhile (the state stays endQueued), and is stored otherwise.
constructorAbortable ==
    /\ phase = "init"
    /\ name # "aborted"
    /\ phase' = "open"
    /\ cleanupOperation' = "real"
    /\ IF cleanup = "deferred"
       THEN cleanup' = "running" /\ cleanupCalls' = cleanupCalls + 1
       ELSE UNCHANGED <<cleanup, cleanupCalls>>
    /\ UNCHANGED <<name, itemQueue, waitingQueue, endWaiter, endAliases, endThens,
                   completionValue, cleanupArg, finalCV, reactions, jobs, reqs,
                   nYield, nComplete, setBy, nAccepted, completedAt, userActive,
                   cancelled, maxSize, options>>

\* resolver.resolve/reject: the endWaiter's promise is shared by every request
\* that was handed endWaiter.promise.
SettleResolver(rs, i, o) ==
    IF i = endWaiter THEN SettleAll(rs, {endWaiter} \cup endAliases, o)
    ELSE Settle(rs, i, o)

\* #yieldValue in "maybeQueued"
yieldValueMaybeQueued(v) ==
    /\ name = "maybeQueued"
    /\ itemQueue' = Append(itemQueue, v)
    /\ nAccepted' = nAccepted + 1
    /\ UNCHANGED <<name, waitingQueue, reqs, completionValue, cleanup, cleanupCalls,
                   cleanupArg, reactions, jobs>>

\* #yieldValue in "waitingForValue"
yieldValueWaitingForValue(v) ==
    /\ name = "waitingForValue"
    /\ waitingQueue' = Tail(waitingQueue)
    /\ name' = IF Tail(waitingQueue) = <<>> THEN "maybeQueued" ELSE name
    /\ reqs' = Settle(reqs, Head(waitingQueue), ValueResult(v))
    /\ nAccepted' = nAccepted + 1
    /\ UNCHANGED <<itemQueue, completionValue, cleanup, cleanupCalls, cleanupArg,
                   reactions, jobs>>

\* #yieldValue in "waitingForEnd": when the last waiting request got its value,
\* cleanup starts and the endWaiter's resolver joins the waiting queue
yieldValueWaitingForEnd(v) ==
    /\ name = "waitingForEnd"
    /\ reqs' = Settle(reqs, Head(waitingQueue), ValueResult(v))
    /\ nAccepted' = nAccepted + 1
    /\ IF Tail(waitingQueue) = <<>>
       THEN /\ promiseTry
            /\ waitingQueue' = <<endWaiter>>
            /\ finalizeCleanup(completionValue, FALSE)
       ELSE /\ waitingQueue' = Tail(waitingQueue)
            /\ UNCHANGED <<name, completionValue, cleanup, cleanupCalls, cleanupArg,
                           reactions, jobs>>
    /\ UNCHANGED <<itemQueue>>

\* #yieldValue in "aborted", "endQueued", "complete", "waitingForCleanupToFinish"
yieldValueIgnored(v) ==
    /\ name \in {"aborted", "endQueued", "complete", "waitingForCleanupToFinish"}
    /\ UNCHANGED <<name, itemQueue, waitingQueue, reqs, nAccepted, completionValue,
                   cleanup, cleanupCalls, cleanupArg, reactions, jobs>>

yieldValue ==
    /\ UserRuns
    /\ InitializerInvoked
    /\ nYield < MaxYields
    /\ nYield' = nYield + 1
    /\ LET v == nYield + 1
       IN \/ yieldValueMaybeQueued(v)
          \/ yieldValueWaitingForValue(v)
          \/ yieldValueWaitingForEnd(v)
          \/ yieldValueIgnored(v)
    /\ UNCHANGED <<phase, endWaiter, endAliases, endThens, cleanupOperation,
                   finalCV, nComplete, setBy, completedAt, userActive,
                   cancelled, maxSize, options>>

\* #completeValue in "maybeQueued"
completeValueMaybeQueued(cv) ==
    /\ name = "maybeQueued"
    /\ name' = "endQueued"
    /\ completionValue' = cv
    /\ setBy' = "producer"
    /\ completedAt' = Len(reqs)
    /\ promiseTry
    /\ UNCHANGED <<waitingQueue, cleanupArg, reactions, jobs>>

\* #completeValue in "waitingForValue" or "waitingForEnd"
completeValueWaiting(cv) ==
    /\ name \in {"waitingForValue", "waitingForEnd"}
    /\ promiseTry
    /\ waitingQueue' = IF name = "waitingForEnd" THEN Append(waitingQueue, endWaiter)
                       ELSE waitingQueue
    /\ finalizeCleanup(cv, FALSE)
    /\ setBy' = "producer"
    /\ completedAt' = Len(reqs)

\* Variant of completeValueIgnored in which a controller return/throw
\* completes an aborted stream.
completeValueIgnored_completes(cv) ==
    /\ name \in {"aborted", "complete", "endQueued", "waitingForCleanupToFinish"}
    /\ IF name = "aborted"
       THEN name' = "complete" /\ completionValue' = cv
       ELSE UNCHANGED <<name, completionValue>>
    /\ UNCHANGED <<setBy, completedAt, waitingQueue,
                   cleanup, cleanupCalls, cleanupArg, reactions, jobs>>

\* #completeValue in "aborted", "complete", "endQueued", "waitingForCleanupToFinish"
completeValueIgnored(cv) ==
    /\ name \in {"aborted", "complete", "endQueued", "waitingForCleanupToFinish"}
    /\ UNCHANGED <<name, completionValue, setBy, completedAt, waitingQueue,
                   cleanup, cleanupCalls, cleanupArg, reactions, jobs>>

completeValue(cv) ==
    /\ UserRuns
    /\ InitializerInvoked
    /\ nComplete < MaxCompletes
    /\ nComplete' = nComplete + 1
    /\ \/ completeValueMaybeQueued(cv)
       \/ completeValueWaiting(cv)
       \/ completeValueIgnored(cv)
    /\ UNCHANGED <<phase, itemQueue, endWaiter, endAliases, endThens,
                   cleanupOperation, finalCV, reqs, nYield, nAccepted, userActive,
                   cancelled, maxSize, options>>

returnValue ==
    /\ completeValue(ReturnCompletion(ProducerValue + nComplete + 1))

throwValue ==
    /\ completeValue(ErrorCompletion(<<ProducerValue + nComplete + 1>>))

\* resolver.reject(new AbortError(...)) for every resolver in the waiting queue
RECURSIVE RejectAborted(_, _)
RejectAborted(rs, q) ==
    IF q = <<>> THEN rs
    ELSE RejectAborted(SettleResolver(rs, Head(q), Rejection(AbortError(Head(q)))),
                       Tail(q))

\* (the same without the rejection of the endWaiter in "waitingForEnd")
abortRejects_queueOnly ==
    IF name \in {"waitingForValue", "waitingForEnd", "waitingForCleanupToFinish"}
    THEN RejectAborted(reqs, waitingQueue)
    ELSE reqs

\* The requests after #abort: in the three waiting states every queued
\* resolver is rejected, and in "waitingForEnd" the endWaiter's as well.
abortRejects ==
    IF name \in {"waitingForValue", "waitingForEnd", "waitingForCleanupToFinish"}
    THEN LET rs == RejectAborted(reqs, waitingQueue)
         IN IF name = "waitingForEnd"
            THEN SettleResolver(rs, endWaiter, Rejection(AbortError(endWaiter)))
            ELSE rs
    ELSE reqs

\* The states in which #abort starts the cleanup operation: those in which
\* it has not been started.
abortStartsCleanup_always == TRUE

abortStartsCleanup_queuedOnly == name = "maybeQueued"

abortStartsCleanup == name \in {"maybeQueued", "waitingForValue", "waitingForEnd"}

\* (the same, but a stream holding buffered values only notes the signal)
abort_keepsBuffered ==
    /\ UserRuns
    /\ InitializerInvoked
    /\ name # "aborted"
    /\ ~cancelled
    /\ cancelled' = TRUE
    /\ reqs' = abortRejects
    /\ IF itemQueue # <<>>
       THEN UNCHANGED <<name, itemQueue, waitingQueue, completionValue, cleanup,
                        cleanupCalls, cleanupArg, reactions, jobs>>
       ELSE /\ waitingQueue' = <<>>
            /\ itemQueue' = <<>>
            /\ IF abortStartsCleanup
               THEN /\ promiseTry
                    /\ finalizeCleanup(ErrorCompletion(AbortError(0)), TRUE)
               ELSE /\ name' = "aborted"
                    /\ completionValue' = NoCompletion
                    /\ UNCHANGED <<cleanup, cleanupCalls, cleanupArg, reactions, jobs>>
    /\ UNCHANGED <<phase, endWaiter, endAliases, endThens, cleanupOperation, finalCV,
                   nYield, nComplete, setBy, nAccepted, completedAt, userActive,
                   maxSize, options>>

\* #abort, the listener of the signal's "abort" event (it fires once, and the
\* signal stays aborted).  Fired while the initializer still runs, it leaves a
\* state the constructor's assertions reject.
abort ==
    /\ UserRuns
    /\ InitializerInvoked
    /\ name # "aborted"
    /\ ~cancelled
    /\ cancelled' = TRUE
    /\ reqs' = abortRejects
    /\ waitingQueue' = <<>>
    /\ itemQueue' = <<>>
    /\ IF abortStartsCleanup
       THEN /\ promiseTry
            /\ finalizeCleanup(ErrorCompletion(AbortError(0)), TRUE)
       ELSE /\ name' = "aborted"
            /\ completionValue' = NoCompletion
            /\ UNCHANGED <<cleanup, cleanupCalls, cleanupArg, reactions, jobs>>
    /\ UNCHANGED <<phase, endWaiter, endAliases, endThens, cleanupOperation, finalCV,
                   nYield, nComplete, setBy, nAccepted, completedAt, userActive,
                   maxSize, options>>

\* The constructor's assertions fail when the signal fired during the
\* initializer: the constructor throws and no stream is handed out.
constructorAborted ==
    /\ phase = "init"
    /\ name = "aborted"
    /\ phase' = "threw"
    /\ UNCHANGED <<name, itemQueue, waitingQueue, endWaiter, endAliases, endThens,
                   cleanupOperation, completionValue, cleanup, cleanupCalls,
                   cleanupArg, finalCV, reactions, jobs, reqs, nYield, nComplete,
                   setBy, nAccepted, completedAt, userActive, cancelled, maxSize, options>>

\* (the same, replaying the completion value of a stream that had completed)
nextAbortedAb_replays ==
    /\ name = "aborted"
    /\ reqs' = Append(reqs, SettledReq("next", NoValue,
                                       IF finalCV.type = "none"
                                       THEN Rejection(AbortError(NewId))
                                       ELSE FromCompletion(finalCV)))
    /\ UNCHANGED <<name, itemQueue, waitingQueue, endAliases, completionValue,
                   cleanupArg, reactions, jobs>>

\* next() in "aborted"
nextAbortedAb ==
    /\ name = "aborted"
    /\ reqs' = Append(reqs, SettledReq("next", NoValue, Rejection(AbortError(NewId))))
    /\ UNCHANGED <<name, itemQueue, waitingQueue, endAliases, completionValue,
                   cleanupArg, reactions, jobs>>

\* next() in "maybeQueued" or "endQueued" with a buffered value
nextItemAb ==
    /\ name \in {"maybeQueued", "endQueued"}
    /\ itemQueue # <<>>
    /\ itemQueue' = Tail(itemQueue)
    /\ reqs' = Append(reqs, SettledReq("next", NoValue, ValueResult(Head(itemQueue))))
    /\ UNCHANGED <<name, waitingQueue, endAliases, completionValue, cleanupArg,
                   reactions, jobs>>

\* next() in "waitingForValue", or in "maybeQueued" with nothing buffered
nextWaitingForValueAb ==
    /\ \/ name = "waitingForValue"
       \/ name = "maybeQueued" /\ itemQueue = <<>>
    /\ reqs' = Append(reqs, NewReq("next", NoValue))
    /\ waitingQueue' = Append(waitingQueue, NewId)
    /\ name' = "waitingForValue"
    /\ UNCHANGED <<itemQueue, endAliases, completionValue, cleanupArg, reactions, jobs>>

\* next() in "endQueued" with nothing buffered
nextEndQueuedAb ==
    /\ name = "endQueued"
    /\ itemQueue = <<>>
    /\ reqs' = Append(reqs, NewReq("next", NoValue))
    /\ waitingQueue' = Append(waitingQueue, NewId)
    /\ finalizeCleanup(completionValue, FALSE)
    /\ UNCHANGED <<itemQueue, endAliases>>

\* next() in "waitingForEnd": the endWaiter's promise itself
nextWaitingForEndAb ==
    /\ name = "waitingForEnd"
    /\ reqs' = Append(reqs, NewReq("next", NoValue))
    /\ endAliases' = endAliases \cup {NewId}
    /\ UNCHANGED <<name, itemQueue, waitingQueue, completionValue, cleanupArg,
                   reactions, jobs>>

\* next() in "waitingForCleanupToFinish"
nextWaitingForCleanupAb ==
    /\ name = "waitingForCleanupToFinish"
    /\ reqs' = Append(reqs, NewReq("next", NoValue))
    /\ waitingQueue' = Append(waitingQueue, NewId)
    /\ UNCHANGED <<name, itemQueue, endAliases, completionValue, cleanupArg,
                   reactions, jobs>>

\* next() in "complete": the completion is replayed
nextCompleteAb ==
    /\ name = "complete"
    /\ reqs' = Append(reqs, SettledReq("next", NoValue, FromCompletion(completionValue)))
    /\ UNCHANGED <<name, itemQueue, waitingQueue, endAliases, completionValue,
                   cleanupArg, reactions, jobs>>

nextAbortable ==
    /\ phase = "open"
    /\ UserRuns
    /\ Len(reqs) < MaxReqs
    /\ \/ nextAbortedAb
       \/ nextItemAb
       \/ nextWaitingForValueAb
       \/ nextEndQueuedAb
       \/ nextWaitingForEndAb
       \/ nextWaitingForCleanupAb
       \/ nextCompleteAb
    /\ UNCHANGED <<phase, endWaiter, endThens, cleanupOperation, cleanup,
                   cleanupCalls, finalCV, nYield, nComplete, setBy, nAccepted,
                   completedAt, userActive, cancelled, maxSize, options>>

\* return() in "aborted"
returnAbortedAb(x) ==
    /\ name = "aborted"
    /\ reqs' = Append(reqs, SettledReq("return", x, Rejection(AbortError(NewId))))
    /\ UNCHANGED <<name, itemQueue, waitingQueue, endWaiter, endAliases,
                   completionValue, cleanup, cleanupCalls, cleanupArg, reactions,
                   jobs, setBy>>

\* return() in "maybeQueued": cleanup starts, buffered values are dropped
returnMaybeQueuedAb(x) ==
    /\ name = "maybeQueued"
    /\ promiseTry
    /\ reqs' = Append(reqs, NewReq("return", x))
    /\ waitingQueue' = Append(waitingQueue, NewId)
    /\ finalizeCleanup(ReturnCompletion(x), FALSE)
    /\ itemQueue' = <<>>
    /\ setBy' = "consumer"
    /\ UNCHANGED <<endWaiter, endAliases>>

\* return() in "waitingForValue"
returnWaitingForValueAb(x) ==
    /\ name = "waitingForValue"
    /\ reqs' = Append(reqs, NewReq("return", x))
    /\ name' = "waitingForEnd"
    /\ endWaiter' = NewId
    /\ completionValue' = ReturnCompletion(x)
    /\ setBy' = "consumer"
    /\ UNCHANGED <<itemQueue, waitingQueue, endAliases, cleanup, cleanupCalls,
                   cleanupArg, reactions, jobs>>

\* return() in "waitingForEnd": the endWaiter's promise itself
returnWaitingForEndAb(x) ==
    /\ name = "waitingForEnd"
    /\ reqs' = Append(reqs, NewReq("return", x))
    /\ endAliases' = endAliases \cup {NewId}
    /\ UNCHANGED <<name, itemQueue, waitingQueue, endWaiter, completionValue,
                   cleanup, cleanupCalls, cleanupArg, reactions, jobs, setBy>>

\* return() in "endQueued": buffered values are dropped
returnEndQueuedAb(x) ==
    /\ name = "endQueued"
    /\ reqs' = Append(reqs, NewReq("return", x))
    /\ waitingQueue' = Append(waitingQueue, NewId)
    /\ finalizeCleanup(completionValue, FALSE)
    /\ itemQueue' = <<>>
    /\ UNCHANGED <<endWaiter, endAliases, cleanup, cleanupCalls, setBy>>

\* return() in "waitingForCleanupToFinish"
returnWaitingForCleanupAb(x) ==
    /\ name = "waitingForCleanupToFinish"
    /\ reqs' = Append(reqs, NewReq("return", x))
    /\ waitingQueue' = Append(waitingQueue, NewId)
    /\ UNCHANGED <<name, itemQueue, endWaiter, endAliases, completionValue,
                   cleanup, cleanupCalls, cleanupArg, reactions, jobs, setBy>>

\* return() in "complete": the completion is replayed
returnCompleteAb(x) ==
    /\ name = "complete"
    /\ reqs' = Append(reqs, SettledReq("return", x, FromCompletion(completionValue)))
    /\ UNCHANGED <<name, itemQueue, waitingQueue, endWaiter, endAliases,
                   completionValue, cleanup, cleanupCalls, cleanupArg, reactions,
                   jobs, setBy>>

returnAbortable ==
    /\ phase = "open"
    /\ UserRuns
    /\ Len(reqs) < MaxReqs
    /\ LET x == ConsumerValue + NewId
       IN \/ returnAbortedAb(x)
          \/ returnMaybeQueuedAb(x)
          \/ returnWaitingForValueAb(x)
          \/ returnWaitingForEndAb(x)
          \/ returnEndQueuedAb(x)
          \/ returnWaitingForCleanupAb(x)
          \/ returnCompleteAb(x)
    /\ UNCHANGED <<phase, endThens, cleanupOperation, finalCV, nYield, nComplete,
                   nAccepted, completedAt, userActive, cancelled, maxSize, options>>

\* The promise promiseTry returned settles (ok: fulfilled, ~ok: the cleanup
\* operation threw or rejected), and the functions awaiting it are queued.
cleanedUpSettles(ok) ==
    /\ cleanup = "running"
    /\ (~userActive \/ jobs = <<>>)
    /\ userActive' = (jobs \o reactions = <<>>)
    /\ cleanup' = IF ok THEN "ok" ELSE "failed"
    /\ jobs' = jobs \o reactions
    /\ reactions' = <<>>
    /\ UNCHANGED <<phase, name, itemQueue, waitingQueue, endWaiter, endAliases,
                   endThens, cleanupOperation, completionValue, cleanupArg, finalCV,
                   reqs, nYield, nComplete, cleanupCalls, setBy, nAccepted,
                   completedAt, cancelled, maxSize, options>>

\* resolver.resolve({done: true, value}) or resolver.reject(reason) for every
\* resolver in the waiting queue
RECURSIVE ResolveWaiters(_, _, _)
ResolveWaiters(rs, q, o) ==
    IF q = <<>> THEN rs
    ELSE ResolveWaiters(SettleResolver(rs, Head(q), o), Tail(q), o)

\* (the same, completing the stream whatever its state)
jobFinalize_completes(j) ==
    /\ j.k = "finalize"
    /\ LET merged == MergeCompletion(cleanupArg, cleanup = "ok")
       IN /\ reqs' = ResolveWaiters(reqs, waitingQueue, FromCompletion(merged))
          /\ finalCV' = merged
          /\ name' = "complete"
          /\ completionValue' = merged
    /\ waitingQueue' = <<>>
    /\ jobs' = Tail(jobs)

\* #finalizeCleanup after "await cleanedUp": a cleanup failure is merged into
\* the completion value, the waiting queue is drained, and the stream becomes
\* complete unless it was aborted meanwhile.
jobFinalize(j) ==
    /\ j.k = "finalize"
    /\ LET merged == MergeCompletion(cleanupArg, cleanup = "ok")
       IN /\ reqs' = ResolveWaiters(reqs, waitingQueue, FromCompletion(merged))
          /\ finalCV' = merged
          /\ IF name = "waitingForCleanupToFinish"
             THEN name' = "complete" /\ completionValue' = merged
             ELSE UNCHANGED <<name, completionValue>>
    /\ waitingQueue' = <<>>
    /\ jobs' = Tail(jobs)

runJobAbortable ==
    /\ ~userActive
    /\ jobs # <<>>
    /\ jobFinalize(Head(jobs))
    /\ userActive' = (jobs' = <<>>)
    /\ UNCHANGED <<phase, itemQueue, endWaiter, endAliases, endThens,
                   cleanupOperation, cleanup, cleanupArg, reactions, nYield,
                   nComplete, cleanupCalls, setBy, nAccepted, completedAt,
                   cancelled, maxSize, options>>

NextAbortable ==
    \/ constructorAbortable
    \/ constructorAborted
    \/ yieldValue
    \/ returnValue
    \/ throwValue
    \/ nextAbortable
    \/ returnAbortable
    \/ abort
    \/ runJobAbortable
    \/ userSchedule
    \/ userEnd
    \/ userJobStart
    \/ \E ok \in BOOLEAN : cleanedUpSettles(ok)

SpecAbortable == InitAbortable /\ [][NextAbortable]_vars

\* ==== src/Stream_v3.mjs ======================================================
\* An earlier variant of the class: the item queue is bounded by the option
\* queue, with the option drop choosing the value dropped on overflow.  The
\* completion is queued behind the buffered values (completionValue is that
\* last entry of _queue), the states are "active", "cleaningUp" and
\* "complete", and cleanup runs in a promise job.

\* new Stream(initializer, {queue, drop}): the arguments of the call.  An
\* option left out is "undefined"; queue left out is Infinity.
OptionSets ==
    [initializer : {"function", "other"}, queueIsNumber : {TRUE},
     queue : {-1, 0, 1, Infinity}, drop : {"undefined", "oldest", "newest", "other"}]
        \cup [initializer : {"function"}, queueIsNumber : {FALSE},
              queue : {Infinity}, drop : {"undefined"}]

\* The default of the parameter: { queue=Infinity, drop="newest" }
drop == IF options.drop = "undefined" THEN "newest" ELSE options.drop

\* The call of the constructor: nothing has been checked or created yet.
InitV3 ==
    /\ phase = "new"
    /\ options \in OptionSets
    /\ maxSize = options.queue
    /\ name = "active"
    /\ itemQueue = <<>>
    /\ waitingQueue = <<>>
    /\ endWaiter = 0
    /\ endAliases = {}
    /\ endThens = <<>>
    /\ cleanupOperation = "placeholder"
    /\ completionValue = NoCompletion
    /\ cleanup = "idle"
    /\ cleanupArg = NoCompletion
    /\ finalCV = NoCompletion
    /\ reactions = <<>>
    /\ jobs = <<>>
    /\ reqs = <<>>
    /\ nYield = 0
    /\ nComplete = 0
    /\ cleanupCalls = 0
    /\ setBy = "none"
    /\ nAccepted = 0
    /\ completedAt = 0
    /\ userActive = TRUE
    /\ cancelled = FALSE

\* (the same without the check of the capacity's sign)
ValidOptions_anyCapacity ==
    /\ options.queueIsNumber
    /\ options.initializer = "function"
    /\ drop \in {"newest", "oldest"}

\* The constructor's checks: each failing one throws.
ValidOptions ==
    /\ options.queueIsNumber
    /\ options.initializer = "function"
    /\ drop \in {"newest", "oldest"}
    /\ ~(maxSize < 0)

\* The constructor up to the call of the initializer: it throws, or creates
\* the queues and invokes the initializer.
constructorV3 ==
    /\ phase = "new"
    /\ phase' = IF ValidOptions THEN "init" ELSE "threw"
    /\ UNCHANGED <<name, itemQueue, waitingQueue, endWaiter, endAliases, endThens,
                   cleanupOperation, completionValue, cleanup, cleanupArg, finalCV,
                   reactions, jobs, reqs, nYield, nComplete, cleanupCalls, setBy,
                   nAccepted, completedAt, userActive, cancelled, maxSize, options>>

\* The initializer has returned: this._cleanup is set.
initializerReturnsV3 ==
    /\ phase = "init"
    /\ phase' = "open"
    /\ cleanupOperation' = "real"
    /\ UNCHANGED <<name, itemQueue, waitingQueue, endWaiter, endAliases, endThens,
                   completionValue, cleanup, cleanupArg, finalCV, reactions, jobs,
                   reqs, nYield, nComplete, cleanupCalls, setBy, nAccepted,
                   completedAt, userActive, cancelled, maxSize, options>>

\* _beginCleanup: this._cleanedUp = Promise.resolve().then(this._cleanup), a
\* promise job that calls the cleanup function; while the initializer runs
\* this._cleanup is still undefined and the job calls nothing.
beginCleanup(js) ==
    /\ name' = "cleaningUp"
    /\ jobs' = Append(js, Job("cleanup", IF cleanupOperation = "real" THEN 1 ELSE 0))

\* _queue.push(value), then the drop on overflow
PushDrop(q, v) ==
    LET pushed == Append(q, v)
    IN IF Len(pushed) > maxSize
       THEN IF drop = "oldest" THEN Tail(pushed)
            ELSE IF drop = "newest" THEN SubSeq(pushed, 1, Len(pushed) - 1)
            ELSE pushed
       ELSE pushed

\* The return() calls that follow the promise of waiting request i
\* (last.promise.then(afterFinal, afterFinal)) are queued when it settles.
AfterFinalJobs(i) ==
    LET RECURSIVE Jobs(_)
        Jobs(ts) == IF ts = <<>> THEN <<>>
                    ELSE (IF Head(ts).on = i THEN <<Job("afterFinal", Head(ts).r)>>
                          ELSE <<>>) \o Jobs(Tail(ts))
    IN Jobs(endThens)

\* _yield
yieldV3 ==
    /\ UserRuns
    /\ phase \in {"init", "open"}
    /\ nYield < MaxYields
    /\ nYield' = nYield + 1
    /\ LET v == nYield + 1
       IN IF name # "active"
          THEN UNCHANGED <<itemQueue, waitingQueue, reqs, jobs, nAccepted>>
          ELSE IF waitingQueue # <<>>
          THEN /\ reqs' = Settle(reqs, Head(waitingQueue), ValueResult(v))
               /\ waitingQueue' = Tail(waitingQueue)
               /\ jobs' = jobs \o AfterFinalJobs(Head(waitingQueue))
               /\ nAccepted' = nAccepted + 1
               /\ UNCHANGED itemQueue
          ELSE /\ itemQueue' = PushDrop(itemQueue, v)
               /\ nAccepted' = nAccepted + 1
               /\ UNCHANGED <<waitingQueue, reqs, jobs>>
    /\ UNCHANGED <<phase, name, endWaiter, endAliases, endThens, cleanupOperation,
                   completionValue, cleanup, cleanupArg, finalCV, reactions,
                   nComplete, cleanupCalls, setBy, completedAt, userActive,
                   cancelled, maxSize, options>>

\* _throw and _return: the first waiting consumer gets the completion once
\* cleanup has finished and the others get { done: true }; with nobody
\* waiting the completion is queued.
completeV3(cv) ==
    /\ UserRuns
    /\ phase \in {"init", "open"}
    /\ nComplete < MaxCompletes
    /\ nComplete' = nComplete + 1
    /\ IF name # "active"
       THEN UNCHANGED <<name, jobs, reactions, waitingQueue, cleanupArg,
                        completionValue, setBy, completedAt>>
       ELSE /\ beginCleanup(jobs)
            /\ setBy' = "producer"
            /\ completedAt' = Len(reqs)
            /\ IF waitingQueue # <<>>
               THEN /\ reactions' = reactions \o <<Job("owner", Head(waitingQueue))>>
                                       \o JobsFor("excess", Tail(waitingQueue))
                    /\ waitingQueue' = <<>>
                    /\ cleanupArg' = cv
                    /\ UNCHANGED completionValue
               ELSE /\ completionValue' = cv
                    /\ UNCHANGED <<reactions, waitingQueue, cleanupArg>>
    /\ UNCHANGED <<phase, itemQueue, endWaiter, endAliases, endThens,
                   cleanupOperation, cleanup, finalCV, reqs, nYield, cleanupCalls,
                   nAccepted, userActive, cancelled, maxSize, options>>

throwV3 ==
    /\ completeV3(ErrorCompletion(<<ProducerValue + nComplete + 1>>))

returnControllerV3 ==
    /\ completeV3(ReturnCompletion(ProducerValue + nComplete + 1))

\* next()
nextV3 ==
    /\ phase = "open"
    /\ UserRuns
    /\ Len(reqs) < MaxReqs
    /\ IF name = "complete"
       THEN /\ reqs' = Append(reqs, SettledReq("next", NoValue, DoneResult(NoValue)))
            /\ UNCHANGED <<name, itemQueue, waitingQueue, completionValue,
                           cleanupArg, reactions, jobs>>
       ELSE IF itemQueue # <<>>
       THEN /\ reqs' = Append(reqs, SettledReq("next", NoValue,
                                               ValueResult(Head(itemQueue))))
            /\ itemQueue' = Tail(itemQueue)
            /\ UNCHANGED <<name, waitingQueue, completionValue, cleanupArg,
                           reactions, jobs>>
       ELSE IF completionValue.type # "none"
       THEN /\ reqs' = Append(reqs, NewReq("next", NoValue))
            /\ completionValue' = NoCompletion
            /\ cleanupArg' = completionValue
            /\ reactions' = ThenReactions(<<Job("owner", NewId)>>)
            /\ jobs' = ThenJobs(<<Job("owner", NewId)>>)
            /\ UNCHANGED <<name, itemQueue, waitingQueue>>
       ELSE IF name = "cleaningUp"
       THEN /\ reqs' = Append(reqs, NewReq("next", NoValue))
            /\ reactions' = ThenReactions(<<Job("doneTrue", NewId)>>)
            /\ jobs' = ThenJobs(<<Job("doneTrue", NewId)>>)
            /\ UNCHANGED <<name, itemQueue, waitingQueue, completionValue, cleanupArg>>
       ELSE /\ reqs' = Append(reqs, NewReq("next", NoValue))
            /\ waitingQueue' = Append(waitingQueue, NewId)
            /\ UNCHANGED <<name, itemQueue, completionValue, cleanupArg,
                           reactions, jobs>>
    /\ UNCHANGED <<phase, endWaiter, endAliases, endThens, cleanupOperation, cleanup,
                   finalCV, nYield, nComplete, cleanupCalls, setBy, nAccepted,
                   completedAt, userActive, cancelled, maxSize, options>>

\* return(): its argument is not used
returnV3 ==
    /\ phase = "open"
    /\ UserRuns
    /\ Len(reqs) < MaxReqs
    /\ IF name = "complete"
       THEN /\ reqs' = Append(reqs, SettledReq("return", ConsumerValue + NewId,
                                               DoneResult(NoValue)))
            /\ UNCHANGED <<name, itemQueue, completionValue, cleanupArg, reactions,
                           jobs, endThens, setBy>>
       ELSE /\ reqs' = Append(reqs, NewReq("return", ConsumerValue + NewId))
            /\ IF name = "cleaningUp" /\ completionValue.type # "none"
               THEN /\ itemQueue' = <<>>
                    /\ completionValue' = NoCompletion
                    /\ cleanupArg' = completionValue
                    /\ reactions' = ThenReactions(<<Job("follow", NewId)>>)
                    /\ jobs' = ThenJobs(<<Job("follow", NewId)>>)
                    /\ UNCHANGED <<name, endThens, setBy>>
               ELSE IF name = "cleaningUp"
               THEN /\ reactions' = ThenReactions(<<Job("doneTrue", NewId)>>)
                    /\ jobs' = ThenJobs(<<Job("doneTrue", NewId)>>)
                    /\ UNCHANGED <<name, itemQueue, completionValue, cleanupArg,
                                   endThens, setBy>>
               ELSE IF waitingQueue = <<>>
               THEN /\ beginCleanup(jobs)
                    /\ itemQueue' = <<>>
                    /\ reactions' = Append(reactions, Job("returnOwner", NewId))
                    /\ setBy' = "consumer"
                    /\ UNCHANGED <<completionValue, cleanupArg, endThens>>
               ELSE /\ endThens' = Append(endThens,
                                          [on |-> waitingQueue[Len(waitingQueue)],
                                           r |-> NewId])
                    /\ UNCHANGED <<name, itemQueue, completionValue, cleanupArg,
                                   reactions, jobs, setBy>>
    /\ UNCHANGED <<phase, waitingQueue, endWaiter, endAliases, cleanupOperation,
                   cleanup, finalCV, nYield, nComplete, cleanupCalls, nAccepted,
                   completedAt, userActive, cancelled, maxSize, options>>

\* The promise jobs: the call of the cleanup function, the reactions to the
\* cleanedUp promise, and afterFinal.
runJobV3 ==
    /\ ~userActive
    /\ jobs # <<>>
    /\ LET j == Head(jobs)
           ok == cleanup = "ok"
           OrCleanupError(o) == IF ok THEN o ELSE Rejection(<<CleanupErr>>)
       IN IF j.k = "cleanup"
          THEN /\ IF j.r = 1
                  THEN /\ cleanup' = "running"
                       /\ cleanupCalls' = cleanupCalls + 1
                       /\ jobs' = Tail(jobs)
                       /\ UNCHANGED reactions
                  ELSE /\ cleanup' = "ok"
                       /\ jobs' = Tail(jobs) \o reactions
                       /\ reactions' = <<>>
                       /\ UNCHANGED cleanupCalls
               /\ UNCHANGED <<name, reqs, finalCV>>
          ELSE IF j.k = "afterFinal"
          THEN /\ IF name = "active"
                  THEN /\ beginCleanup(Tail(jobs))
                       /\ reactions' = Append(reactions, Job("returnOwner", j.r))
                       /\ UNCHANGED reqs
                  ELSE IF name = "cleaningUp"
                  THEN /\ reactions' = ThenReactions(<<Job("doneTrue", j.r)>>)
                       /\ jobs' = Tail(ThenJobs(<<Job("doneTrue", j.r)>>))
                       /\ UNCHANGED <<name, reqs>>
                  ELSE /\ reqs' = Settle(reqs, j.r, DoneResult(NoValue))
                       /\ jobs' = Tail(jobs)
                       /\ UNCHANGED <<name, reactions>>
               /\ UNCHANGED <<cleanup, cleanupCalls, finalCV>>
          ELSE /\ reqs' = Settle(reqs, j.r,
                             CASE j.k = "owner" -> OrCleanupError(FromCompletion(cleanupArg))
                               [] j.k = "follow" -> OrCleanupError(FromCompletion(cleanupArg))
                               [] j.k = "returnOwner" -> OrCleanupError(DoneResult(NoValue))
                               [] OTHER -> DoneResult(NoValue))
               /\ name' = IF j.k \in {"owner", "returnOwner"} THEN "complete" ELSE name
               /\ finalCV' = IF j.k \in {"owner", "follow"}
                             THEN MergeCompletion(cleanupArg, ok) ELSE finalCV
               /\ jobs' = Tail(jobs) \o AfterFinalJobs(j.r)
               /\ UNCHANGED <<cleanup, cleanupCalls, reactions>>
    /\ userActive' = (jobs' = <<>>)
    /\ UNCHANGED <<phase, itemQueue, waitingQueue, endWaiter, endAliases, endThens,
                   cleanupOperation, completionValue, cleanupArg, nYield, nComplete,
                   setBy, nAccepted, completedAt, cancelled, maxSize, options>>

NextV3 ==
    \/ constructorV3
    \/ initializerReturnsV3
    \/ yieldV3
    \/ throwV3
    \/ returnControllerV3
    \/ nextV3
    \/ returnV3
    \/ runJobV3
    \/ userEnd
    \/ \E ok \in BOOLEAN : cleanedUpSettles(ok)

SpecV3 == InitV3 /\ [][NextV3]_vars

\* ---- properties ----------------------------------------------------------
Requests == 1..Len(reqs)
IsSettled(i) == reqs[i].st # "pending"
InWaitingQueue(i) == \E k \in 1..Len(waitingQueue) : waitingQueue[k] = i
ReturnRequests == {i \in Requests : reqs[i].kind = "return"}
ValuesBefore(i) == {k \in 1..i : reqs[k].st = "value"}

\* The controller's return/throw set the completion value the cleanup was
\* started with, and request i was issued after that call.
ProducerReturned == setBy = "producer" /\ cleanupArg.type = "return"
ProducerThrew == setBy = "producer" /\ cleanupArg.type = "error"
IssuedAfterCompletion(i) == i > completedAt

\* The position of request i among the next() calls issued so far.
NextIndex(i) == Cardinality({k \in 1..i : reqs[k].kind = "next"})

\* A next() that received a value received the value of the yield with its own
\* position: the i-th next() gets the i-th yielded value.
ValuesInCallOrder ==
    \A i \in Requests :
        (reqs[i].kind = "next" /\ reqs[i].st = "value") => reqs[i].val = NextIndex(i)

\* No request is settled before a request issued earlier than it.
SettledInIssueOrder ==
    \A i, j \in Requests : (i < j /\ IsSettled(j)) => IsSettled(i)

\* C1: for every interleaving of producer and consumer calls, next()/return()
\* requests are settled in the order they were issued: the i-th issued next()
\* receives the i-th yielded value, and no request settles before a request
\* issued earlier than it.
C1_Fifo == ValuesInCallOrder /\ SettledInIssueOrder

C3_NoEarlyCleanup ==
    endWaiter # 0 =>
        /\ (\E i \in 1..(endWaiter - 1) : InWaitingQueue(i)) => cleanupCalls = 0
        /\ cleanupCalls > 0 =>
              \A i \in 1..(endWaiter - 1) : reqs[i].st = "value" \/ setBy = "producer"

\* C3 witness: return() was called behind two outstanding next() requests, the
\* producer has delivered a value to both, and cleanup has then been invoked.
C3_Witness ==
    /\ endWaiter = 3
    /\ reqs[1].st = "value" /\ reqs[1].val = 1
    /\ reqs[2].st = "value" /\ reqs[2].val = 2
    /\ cleanupCalls = 1

\* C4: when the producer completed the stream and no consumer return() came
\* first, a next() that has observed the completion was preceded by next()
\* calls that received every value the stream had accepted.
C4_DrainBeforeDone ==
    \A i \in Requests :
        (/\ reqs[i].kind = "next"
         /\ reqs[i].st \in {"done", "rejected"}
         /\ setBy = "producer"
         /\ ReturnRequests \cap 1..i = {})
            => Cardinality(ValuesBefore(i)) = nAccepted

C6_RejectsWithSameError ==
    \A i \in Requests :
        (/\ ProducerThrew
         /\ cleanup = "ok"
         /\ IssuedAfterCompletion(i)
         /\ reqs[i].st \notin {"pending", "value"})
            => (reqs[i].st = "rejected" /\ reqs[i].err = cleanupArg.reason)

\* C7: the item queue and the waiting queue are never both non-empty.
C7_QueuesExclusive == ~(itemQueue # <<>> /\ waitingQueue # <<>>)

\* C7 witness: a yielded value went straight to the oldest of two waiting
\* requests, the other still waits, and nothing is buffered.
C7_Witness ==
    /\ Len(reqs) >= 2
    /\ reqs[1].st = "value"
    /\ waitingQueue = <<2>>
    /\ itemQueue = <<>>

varsButYield ==
    <<phase, name, itemQueue, waitingQueue, endWaiter, endAliases, endThens,
      cleanupOperation, completionValue, cleanup, cleanupArg, finalCV,
      reactions, jobs, reqs, nComplete, cleanupCalls, setBy, nAccepted,
      completedAt, userActive, cancelled, maxSize, options>>

\* C9: a controller yield called in DrainingBuffered (endQueued),
\* DrainingAwaiting (waitingForEnd), CleaningUp (waitingForCleanupToFinish) or
\* Complete changes nothing.
C9_YieldIgnoredWhenTerminating ==
    [][(nYield' # nYield
          /\ name \in {"endQueued", "waitingForEnd", "waitingForCleanupToFinish",
                       "complete"})
          => UNCHANGED varsButYield]_vars

\* C9 as amended: a controller yield called in endQueued,
\* waitingForCleanupToFinish or complete changes nothing; in waitingForEnd it
\* still resolves the oldest outstanding next() with the value.
C9_YieldIgnoredAfterCleanupStarted ==
    [][(nYield' # nYield) =>
          /\ name \in {"endQueued", "waitingForCleanupToFinish", "complete"}
                => UNCHANGED varsButYield
          /\ name = "waitingForEnd"
                => /\ reqs'[Head(waitingQueue)].st = "value"
                   /\ reqs'[Head(waitingQueue)].val = nYield']_vars

\* C9 witness: yields were made that the stream did not accept, one of them
\* while a completion was queued behind buffered items.
C9_Witness ==
    /\ name = "endQueued"
    /\ itemQueue # <<>>
    /\ nYield > nAccepted

\* The first request that did not get a value: the one that observes the
\* completion first.
OwnsCompletion(i) ==
    /\ reqs[i].st \notin {"pending", "value"}
    /\ \A k \in 1..(i - 1) : reqs[k].st = "value"

\* C10: when the cleanup operation failed with c while the completion value
\* was Return(v), the final completion value is Error(c) and the request
\* owning the completion is a promise rejected with c.
C10_CleanupErrorReplacesReturn ==
    (cleanup = "failed" /\ cleanupArg.type = "return") =>
        /\ finalCV = ErrorCompletion(<<CleanupErr>>)
        /\ \A i \in Requests :
              OwnsCompletion(i) => (reqs[i].st = "rejected" /\ reqs[i].err = <<CleanupErr>>)

\* C11: when the cleanup operation failed with B while the completion value
\* was Error(A), the final completion value is the aggregate of A and B, in
\* that order, and the request owning the completion is a promise rejected
\* with that aggregate.
C11_AggregatesBothErrors ==
    (cleanup = "failed" /\ cleanupArg.type = "error") =>
        /\ finalCV = ErrorCompletion(cleanupArg.reason \o <<CleanupErr>>)
        /\ \A i \in Requests :
              OwnsCompletion(i) =>
                  /\ reqs[i].st = "rejected"
                  /\ reqs[i].err = cleanupArg.reason \o <<CleanupErr>>

\* Request j is the consumer return() that waits behind outstanding next()
\* requests, or a next() issued after it.
FromReturnOn(j) ==
    /\ endWaiter # 0
    /\ \/ j = endWaiter
       \/ j > endWaiter /\ reqs[j].kind = "next"

IsReturnCall == Len(reqs') = Len(reqs) + 1 /\ reqs'[Len(reqs')].kind = "return"

\* C13: a consumer return() called while values are buffered and no
\* completion is set empties the item queue and invokes the cleanup operation
\* in the same step, and no request issued after a return() ever receives a
\* value.
C13_ReturnDiscardsBuffered ==
    [][/\ (IsReturnCall /\ itemQueue # <<>> /\ completionValue.type = "none")
            => /\ itemQueue' = <<>>
               /\ cleanupCalls' = cleanupCalls + 1
               /\ cleanup' = "running"
       /\ \A j \in 1..Len(reqs') :
             (\E r \in 1..(j - 1) : reqs'[r].kind = "return") => reqs'[j].st # "value"]_vars

\* C13 witness: two values were buffered, return() was the first request, and
\* the next() issued after it is done without having received a value.
C13_Witness ==
    /\ nAccepted = 2
    /\ setBy = "consumer"
    /\ Len(reqs) >= 2
    /\ reqs[1].kind = "return" /\ reqs[1].st = "done"
    /\ reqs[2].kind = "next" /\ reqs[2].st = "done"

\* C14: when the final completion value is Return(r), every settled return()
\* call has resolved {done: true, value: r}, whatever value it passed.
C14_ReturnKeepsFirstValue ==
    (cleanup = "ok" /\ finalCV.type = "return") =>
        \A i \in ReturnRequests :
            IsSettled(i) => (reqs[i].st = "done" /\ reqs[i].ret = finalCV.value)

\* C15: a request that has observed the completion (a done result or an
\* error) did so after the cleanup operation's result had settled.
C15_CompletionAfterCleanup ==
    \A i \in Requests :
        reqs[i].st \in {"done", "rejected", "thrown"} => Settled

\* C15 witness: cleanup is in flight and two requests that are to receive the
\* completion are pending.
C15_Witness ==
    /\ name = "waitingForCleanupToFinish"
    /\ cleanup = "running"
    /\ Len(reqs) >= 2
    /\ \A i \in Requests : reqs[i].st = "pending"

OldestOutstanding(i) ==
    /\ i <= completedAt
    /\ reqs[i].kind = "next"
    /\ \A k \in 1..(i - 1) : reqs[k].st = "value"

C19_ErrorDeliveredOnce ==
    \A i, j \in Requests :
        (i # j /\ reqs[i].st = "rejected" /\ reqs[j].st = "rejected")
            => reqs[i].err # reqs[j].err

\* An error created by new AbortError(...).
IsAbortError(e) == \E k \in 0..MaxReqs : e = AbortError(k)

\* C20: when the abort signal fires, every next() and return() request that is
\* still unsettled at that moment is rejected with the abort error, and every
\* request already settled keeps its result.
C20_AbortRejectsUnsettled ==
    [][(name # "aborted" /\ name' = "aborted") =>
         /\ Len(reqs') = Len(reqs)
         /\ \A i \in Requests :
              IF IsSettled(i) THEN reqs'[i] = reqs[i]
              ELSE reqs'[i].st = "rejected" /\ IsAbortError(reqs'[i].err)]_vars

\* The signal fired with one request served, and a next() and a return() still
\* waiting: both were rejected with the abort error.
C20_Witness ==
    /\ name = "aborted"
    /\ \E i, j, k \in Requests :
         /\ reqs[i].st = "value"
         /\ reqs[j].kind = "next" /\ reqs[j].at = "waitingForValue"
         /\ reqs[j].st = "rejected" /\ IsAbortError(reqs[j].err)
         /\ reqs[k].kind = "return" /\ reqs[k].at \in {"waitingForValue", "waitingForEnd"}
         /\ reqs[k].st = "rejected" /\ IsAbortError(reqs[k].err)

\* The requests the step issues.
NewRequests == (Len(reqs) + 1)..Len(reqs')

\* C21: once the signal has fired on a stream, buffered values included, no
\* request ever receives a value any more, and every next() issued from then
\* on rejects with the abort error.
C21_BufferedNeverDelivered ==
    [][cancelled =>
         /\ \A i \in 1..Len(reqs') :
              reqs'[i].st = "value" => (i \in Requests /\ reqs[i].st = "value")
         /\ \A i \in NewRequests :
              reqs'[i].kind = "next" =>
                  reqs'[i].st = "rejected" /\ IsAbortError(reqs'[i].err)]_vars

\* Two values were yielded, one was consumed, the signal fired with the other
\* still buffered, and the next() after it was rejected.
C21_Witness ==
    /\ cancelled /\ phase = "open"
    /\ nAccepted = 2
    /\ Len(reqs) = 2
    /\ reqs[1].kind = "next" /\ reqs[1].st = "value" /\ reqs[1].val = 1
    /\ reqs[2].kind = "next" /\ reqs[2].at = "cancelled"
    /\ reqs[2].st = "rejected" /\ IsAbortError(reqs[2].err)

\* C22: a stream constructed with an already aborted signal starts aborted,
\* and its initializer is never invoked: the controller is never called and
\* no cleanup operation is ever stored or run.
C22_AbortedAtConstruction ==
    (phase = "open" /\ cleanupOperation = "placeholder") =>
        /\ name = "aborted" /\ cancelled
        /\ nYield = 0 /\ nComplete = 0 /\ nAccepted = 0
        /\ cleanup = "idle" /\ cleanupCalls = 0

\* The stream constructed with an aborted signal has been asked for a value
\* and to return.
C22_Witness ==
    /\ phase = "open" /\ cleanupOperation = "placeholder"
    /\ \E i, j \in Requests :
         /\ reqs[i].kind = "next" /\ reqs[i].st = "rejected"
         /\ reqs[j].kind = "return" /\ reqs[j].st = "rejected"

\* C23: all the requests rejected because of the abort, those outstanding
\* when the signal fired and those issued later, carry one and the same error.
C23_OneCancellationError ==
    \A i, j \in Requests :
        (/\ reqs[i].st = "rejected" /\ IsAbortError(reqs[i].err)
         /\ reqs[j].st = "rejected" /\ IsAbortError(reqs[j].err))
            => reqs[i].err = reqs[j].err

\* The step in which the signal fires on a constructed stream.
SignalFires == phase = "open" /\ ~cancelled /\ cancelled'

C25_CleanupOutcomeHidden ==
    [][cancelled =>
         /\ name = "aborted" /\ name' = "aborted"
         /\ \A i \in Requests : IsSettled(i) /\ reqs'[i] = reqs[i]
         /\ \A i \in NewRequests :
              reqs'[i].st = "rejected" /\ IsAbortError(reqs'[i].err)]_vars

\* The cleanup the signal started has failed and #finalizeCleanup has run; the
\* request rejected at the signal and a later one hold abort errors.
C25_Witness ==
    /\ cancelled /\ phase = "open"
    /\ cleanup = "failed" /\ finalCV.type = "error" /\ jobs = <<>>
    /\ \E i, j \in Requests :
         /\ reqs[i].at = "waitingForValue" /\ IsAbortError(reqs[i].err)
         /\ reqs[j].at = "cancelled" /\ IsAbortError(reqs[j].err)

\* C26: a signal firing after the stream has reached "complete" is a no-op:
\* a complete stream stays complete.
C26_AbortAfterCompleteIsNoop == [][name = "complete" => name' = "complete"]_vars

\* C26 as amended: a signal firing on a complete stream settles or changes no
\* request and does not start the cleanup operation again, but the stream
\* becomes aborted.
C26_AbortAfterCompleteOnlyAborts ==
    [][(name = "complete" /\ name' # "complete") =>
         /\ cancelled' /\ name' = "aborted"
         /\ reqs' = reqs
         /\ cleanup' = cleanup /\ cleanupCalls' = cleanupCalls
         /\ jobs' = jobs /\ reactions' = reactions]_vars

\* The signal fired on a stream a request had found complete.
C26_Witness ==
    /\ cancelled /\ name = "aborted"
    /\ \E i \in Requests : reqs[i].at = "complete" /\ reqs[i].st = "done"
    /\ cleanupCalls = 1

\* C27: every next() and return() issued after the signal has fired rejects
\* with the abort error, also on a stream that had completed: the completion
\* value is not replayed.
C27_AbortedAfterComplete ==
    \A i \in Requests :
        reqs[i].at = "cancelled" =>
            /\ reqs[i].st = "rejected"
            /\ IsAbortError(reqs[i].err)
            /\ reqs[i].err # finalCV.reason

\* A request found the stream complete and got its completion value; after
\* the signal a next() and a return() were rejected.
C27_Witness ==
    /\ \E i, j, k \in Requests :
         /\ reqs[i].at = "complete" /\ reqs[i].st = "done"
         /\ reqs[j].at = "cancelled" /\ reqs[j].kind = "next"
         /\ reqs[k].at = "cancelled" /\ reqs[k].kind = "return"

\* The values the producer yielded before it completed are 1..nAccepted; the
\* latest of them that fit into the capacity, in yield order.
LatestYields ==
    LET k == IF nAccepted > maxSize THEN maxSize ELSE nAccepted
    IN [i \in 1..k |-> nAccepted - k + i]

\* No value has been asked for yet.
BeforeConsumption == Len(reqs) = 0 /\ ~cancelled

\* C28: as long as nothing has been consumed, the item queue of capacity N
\* holds exactly the N most recently yielded values in yield order, and every
\* next() that finds values buffered retrieves the oldest of them.
C28_DropOldestKeepsLatest ==
    [][/\ BeforeConsumption => itemQueue = LatestYields
       /\ BeforeConsumption' => itemQueue' = LatestYields'
       /\ \A i \in NewRequests :
            (~cancelled /\ itemQueue # <<>> /\ reqs'[i].kind = "next") =>
                /\ reqs'[i].st = "value" /\ reqs'[i].val = Head(itemQueue)
                /\ itemQueue' = Tail(itemQueue)]_vars

\* Capacity 2: of the values 1, 2, 3 yielded before any consumption, 2 and 3
\* were retrieved in that order.
C28_Witness ==
    /\ maxSize = 2 /\ nAccepted = 3
    /\ Len(reqs) = 2
    /\ reqs[1].st = "value" /\ reqs[1].val = 2
    /\ reqs[2].st = "value" /\ reqs[2].val = 3

\* The step is a yield that finds the item queue full: there is a capacity,
\* nobody is waiting, and the value does not fit.
YieldOverflows ==
    /\ nYield' = nYield + 1
    /\ phase \in {"init", "open"}
    /\ name = "active" /\ waitingQueue = <<>>
    /\ Len(itemQueue) + 1 > maxSize

\* C29: with a capacity configured and no eviction policy given, a yield that
\* overflows the item queue drops the oldest value: the queue afterwards is
\* the old one without its head, followed by the new value.
C29_DefaultDropsOldest ==
    [][(YieldOverflows /\ options.drop = "undefined") =>
         itemQueue' = Tail(Append(itemQueue, nYield + 1))]_vars

\* The arguments C30 is about: no function as initializer, or a negative
\* capacity.
InvalidArguments ==
    \/ options.initializer # "function"
    \/ options.queueIsNumber /\ options.queue < 0

\* C30: a constructor call with a non-function initializer or a negative
\* capacity throws: the initializer is never invoked, so the controller is
\* never called, and no stream exists that could be asked for anything.
C30_InvalidConstructionThrows ==
    InvalidArguments =>
        /\ phase \in {"new", "threw"}
        /\ nYield = 0 /\ nComplete = 0 /\ Len(reqs) = 0
        /\ cleanupCalls = 0 /\ jobs = <<>>

\* The constructor was called with a function and a negative capacity, and
\* has thrown.
C30_Witness ==
    /\ phase = "threw"
    /\ options.initializer = "function"
    /\ options.queueIsNumber /\ options.queue < 0

\* The controller's return/throw was called while the initializer was running.
CompletedInInitializer == phase = "init" /\ nComplete > 0

\* C31: when the initializer has called the controller's return/throw, no
\* cleanup operation is invoked while the initializer still runs (the one it
\* will return is not known yet), and the step in which the constructor
\* returns invokes the cleanup operation the initializer returned, once, with
\* the completion value the initializer set; nothing is left for a later
\* consumer call to start.
C31_CleanupStartedByConstructor ==
    [][CompletedInInitializer =>
         /\ cleanupCalls = 0
         /\ phase' = "init" => cleanupCalls' = 0
         /\ phase' = "open" =>
              /\ cleanupOperation' = "real"
              /\ cleanupCalls' = 1
              /\ cleanup' = "running"
              /\ cleanupArg' = completionValue]_vars

\* The constructor has returned after the initializer completed the stream:
\* its reaction on the cleanedUp promise is registered, the real cleanup
\* operation has been invoked once and no consumer call has been made.
C31_Witness ==
    /\ phase = "open"
    /\ nComplete > 0
    /\ cleanupCalls = 1
    /\ Len(reqs) = 0
    /\ \E k \in 1..Len(reactions) : reactions[k] = Job("ctor", 0)

\* The step is a controller return/throw that finds values buffered.
CompletesWhileBuffered ==
    /\ nComplete' = nComplete + 1
    /\ name = "maybeQueued"
    /\ itemQueue # <<>>

\* The completion is queued behind buffered values.
DrainingBeforeEnd == name = "endQueued" /\ itemQueue # <<>>

\* The buffered values stay where they are unless a consumer call is made,
\* and a next() made in the step takes the oldest of them.
BufferedGoToConsumer ==
    /\ Len(reqs') = Len(reqs) => (itemQueue' = itemQueue /\ name' = name)
    /\ \A i \in NewRequests :
         reqs'[i].kind = "next" =>
            /\ reqs'[i].st = "value" /\ reqs'[i].val = Head(itemQueue)
            /\ itemQueue' = Tail(itemQueue)

\* C32: a controller return/throw that finds values buffered invokes the
\* cleanup operation in that very call and leaves the values buffered; from
\* then on, as long as values are buffered, they leave the queue only through
\* consumer calls and every next() gets the oldest buffered value, never the
\* completion.
C32_CleanupStartsDrainFirst ==
    [][/\ CompletesWhileBuffered =>
            /\ cleanup' # "idle"
            /\ cleanupOperation = "real" => cleanupCalls' = cleanupCalls + 1
            /\ itemQueue' = itemQueue /\ name' = "endQueued"
       /\ DrainingBeforeEnd => BufferedGoToConsumer]_vars

\* C32 for a stream whose constructor has returned.
C32_AfterConstruction ==
    [][phase = "open" =>
         /\ CompletesWhileBuffered =>
              /\ cleanupCalls' = cleanupCalls + 1
              /\ itemQueue' = itemQueue /\ name' = "endQueued"
         /\ DrainingBeforeEnd => BufferedGoToConsumer]_vars

\* The step is a yield that buffers its value: nobody is waiting for one and
\* the stream has not been completed.
BufferingYield ==
    /\ nYield' = nYield + 1
    /\ name \in {"empty", "queued"}

\* C33: the item queue of capacity N never holds more than N values, before
\* and after every step; a yield that buffers its value where it fits into
\* the capacity appends it and evicts nothing, and one that exceeds the
\* capacity evicts exactly one value.
C33_CapacityRespected ==
    [][/\ Len(itemQueue) <= maxSize
       /\ Len(itemQueue') <= maxSize
       /\ BufferingYield =>
            IF Len(itemQueue) + 1 <= maxSize
            THEN itemQueue' = Append(itemQueue, nYield + 1)
            ELSE Len(itemQueue') = Len(itemQueue)]_vars

\* Capacity 2: the first two yields filled the queue without an eviction, the
\* third exceeded the capacity, and nothing has been consumed.
C33_Witness ==
    /\ maxSize = 2
    /\ nYield = 3
    /\ Len(itemQueue) = 2
    /\ Len(reqs) = 0

\* No promise a next() or return() call has returned is pending.
NothingPending == \A i \in Requests : reqs[i].st # "pending"

C35_AbortedIsAbsorbing ==
    [][name = "aborted" =>
         /\ name' = "aborted"
         /\ cancelled'
         /\ itemQueue' = <<>> /\ waitingQueue' = <<>>
         /\ cleanupCalls' = cleanupCalls
         /\ \A i \in Requests : reqs[i].st # "pending" => reqs'[i] = reqs[i]]_vars

\* The stream was aborted while it was open, and is still aborted after the
\* controller's yield and return/throw were called on it (both were ignored:
\* no completion value was ever accepted), after a next() and a return() were
\* made on it, and after the cleanup operation the abort started has settled
\* and its reaction has run.
C35_Witness ==
    /\ name = "aborted"
    /\ phase = "open"
    /\ setBy = "none"
    /\ nComplete > 0
    /\ nYield > nAccepted
    /\ \E i, j \in Requests :
         /\ reqs[i].at = "cancelled" /\ reqs[i].kind = "next"
         /\ reqs[j].at = "cancelled" /\ reqs[j].kind = "return"
    /\ cleanupCalls = 1
    /\ Settled
    /\ finalCV # NoCompletion

\* The constructor's assertions on the state the initializer left: endQueued
\* when the placeholder cleanup operation was called (cleanupComplete is
\* set), maybeQueued otherwise.
ConstructorAccepts ==
    IF cleanup = "deferred" THEN name = "endQueued" ELSE name = "maybeQueued"

\* C36: whatever the initializer has done when it returns (any sequence of
\* controller yield/return/throw calls, the abort signal firing meanwhile),
\* the stream is in a state the constructor's assertions accept, and the
\* constructor never throws.
C36_ConstructionNeverFails ==
    /\ phase = "init" => ConstructorAccepts
    /\ phase # "threw"

\* C36 for an initializer during which the abort signal does not fire.
C36_WithoutAbort ==
    ~cancelled => C36_ConstructionNeverFails

\* C37: no return() call throws: every return() call has returned a promise,
\* which is pending, resolved or rejected.
C37_ReturnNeverThrows ==
    \A i \in Requests :
        reqs[i].kind = "return" => reqs[i].st \in {"pending", "value", "done", "rejected"}

\* C37 for the return() calls made before the stream is complete.
C37_BeforeComplete ==
    \A i \in Requests :
        (reqs[i].kind = "return" /\ reqs[i].at # "complete") =>
            reqs[i].st \in {"pending", "value", "done", "rejected"}

\* A consumer return() was waiting behind outstanding next() requests when a
\* controller return/throw completed the stream: the endWaiter exists, and the
\* completion value is the producer's.
ProducerCutShort == endWaiter # 0 /\ setBy = "producer"

\* The requests that were issued before that controller call.
IssuedBeforeCompletion == 1..completedAt

\* C38: when the producer completes the stream while a consumer return() is
\* waiting behind outstanding next() requests, the cleanup operation has been
\* invoked exactly once, none of the requests issued before the completion is
\* settled with it before the cleanup operation's result has settled, and
\* once that result has settled every one of them, the next() requests and
\* the return(), is eventually resolved or rejected.
C38_CutShortAllSettled ==
    /\ [](ProducerCutShort =>
            /\ cleanupCalls = 1
            /\ ~Settled => \A i \in IssuedBeforeCompletion :
                              reqs[i].st \in {"pending", "value"})
    /\ (ProducerCutShort /\ Settled) ~>
            (\A i \in IssuedBeforeCompletion : reqs[i].st # "pending")

\* Two next() calls and a return(); the producer yielded one value and then
\* threw: after cleanup the second next() and the return() are rejected.
C38_Witness ==
    /\ ProducerCutShort
    /\ endWaiter = 3 /\ completedAt = 3
    /\ cleanupCalls = 1 /\ Settled
    /\ reqs[1].st = "value"
    /\ reqs[2].st = "rejected"
    /\ reqs[3].kind = "return" /\ reqs[3].st = "rejected"

\* The stream is open: nothing has asked it to end.
StillOpen == name \in {"maybeQueued", "waitingForValue"}

\* The step invokes the cleanup operation.
InvokesCleanup == cleanupCalls' > cleanupCalls

\* C39: while the stream is open the cleanup operation has not been invoked;
\* a step that invokes it is, or follows, a controller return/throw or a
\* consumer return(); a next() call never invokes it, and a yield invokes it
\* only when a consumer return() is waiting for the outstanding requests
\* (state waitingForEnd).
C39_NoCleanupWhileOpen ==
    [][/\ StillOpen => (cleanupCalls = 0 /\ cleanup = "idle")
       /\ InvokesCleanup =>
            /\ ~StillOpen'
            /\ nComplete' > 0 \/ \E i \in 1..Len(reqs') : reqs'[i].kind = "return"
       /\ (nYield' > nYield /\ name # "waitingForEnd") => ~InvokesCleanup
       /\ \A i \in NewRequests : reqs'[i].kind = "next" => ~InvokesCleanup]_vars

\* The producer has yielded twice and the consumer has called next() three
\* times; the constructed stream is open and no cleanup has been invoked.
C39_Witness ==
    /\ phase = "open"
    /\ StillOpen
    /\ nYield = 2
    /\ Len(reqs) = 3
    /\ \A i \in Requests : reqs[i].kind = "next"
    /\ nComplete = 0
    /\ cleanupCalls = 0

====
